---- MODULE Spec2Model ----
(***************************************************************************)
(* Foxy-VPET: the behaviour-selection learning loop.                       *)
(*                                                                         *)
(*   FoxyBrain      (src/foxy_main.py)     weighted-bandit brain           *)
(*   FoxyBrainDQN   (src/foxy_mainDQN.py)  replay-trained Q-network brain  *)
(*   FoxyWidget     (both files)           the timer-driven episode loop   *)
(*                                                                         *)
(* Python floats are IEEE-754 binary64.  A float is modelled by the tuple  *)
(* <<sg, hi, lo, e>> whose value is sg * (hi * 2^27 + lo) * 2^e, with a    *)
(* 53-bit significand (2^52 <= hi * 2^27 + lo < 2^53) and sg in {-1, 1};   *)
(* zero is <<0, 0, 0, 0>>.  The arithmetic below is round-to-nearest-even, *)
(* as the interpreter computes it.                                         *)
(***************************************************************************)
EXTENDS Integers, Naturals, Sequences, FiniteSets, TLC

\* ------------------------------------------------------------------------
\* binary64 arithmetic on two 27-bit limbs
\* ------------------------------------------------------------------------
B27 == 2 ^ 27

Pow2(n) == 2 ^ n

\* number of significant bits of n, 0 <= n < 2^31
BitLen(n) ==
    IF n = 0 THEN 0
    ELSE CHOOSE k \in 1..31 : Pow2(k - 1) <= n /\ (k = 31 \/ n < Pow2(k))

WBitLen(x) == IF x[1] > 0 THEN 27 + BitLen(x[1]) ELSE BitLen(x[2])

WNorm(hi, lo) == <<hi + (lo \div B27), lo % B27>>

WAdd(x, y) == WNorm(x[1] + y[1], x[2] + y[2])

WSub(x, y) ==
    IF x[2] >= y[2] THEN <<x[1] - y[1], x[2] - y[2]>>
                    ELSE <<x[1] - y[1] - 1, x[2] + B27 - y[2]>>

WLt(x, y) == x[1] < y[1] \/ (x[1] = y[1] /\ x[2] < y[2])

WDouble(x) == WNorm(2 * x[1], 2 * x[2])

\* x * c for a small factor c
WScale(x, c) == WNorm(x[1] * c, x[2] * c)

\* x * 2^k, the result below 2^58
WShl(x, k) ==
    IF k = 0 THEN x
    ELSE IF k < 27
    THEN <<x[1] * Pow2(k) + (x[2] \div Pow2(27 - k)), (x[2] % Pow2(27 - k)) * Pow2(k)>>
    ELSE <<x[2] * Pow2(k - 27), 0>>

\* x \div 2^d, the bits shifted out being dropped
WShr(x, d) ==
    IF d = 0 THEN x
    ELSE IF d < 27
    THEN <<x[1] \div Pow2(d), (x[2] \div Pow2(d)) + (x[1] % Pow2(d)) * Pow2(27 - d)>>
    ELSE IF d <= 57 THEN WNorm(0, x[1] \div Pow2(d - 27))
    ELSE <<0, 0>>

\* t with its lowest bit set when lost
WSticky(t, lost) == IF lost /\ t[2] % 2 = 0 THEN <<t[1], t[2] + 1>> ELSE t

\* x \div 2^d, the lowest bit of the result set when a nonzero bit was
\* shifted out (the sticky bit of the alignment shift)
WShrSticky(x, d) ==
    WSticky(WShr(x, d),
            IF d = 0 THEN FALSE
            ELSE IF d < 27 THEN x[2] % Pow2(d) # 0
            ELSE IF d <= 57 THEN x[2] # 0 \/ x[1] % Pow2(d - 27) # 0
            ELSE x # <<0, 0>>)

\* the float sg * m * 2^e, m a significand or 2^53
Pack(sg, m, e) ==
    IF m[1] = 67108864 THEN <<sg, 33554432, 0, e + 1>>
                       ELSE <<sg, m[1], m[2], e>>

\* t rounded by the bits rem dropped below it: up when they exceed half a
\* unit, or equal it and t is odd
RoundTie(sg, t, rem, half, e) ==
    Pack(sg, IF rem > half \/ (rem = half /\ t[2] % 2 = 1)
             THEN WAdd(t, <<0, 1>>) ELSE t, e)

\* s of n bits brought to 53 bits
RoundBits(sg, s, e, n) ==
    IF n <= 53
    THEN Pack(sg, WShl(s, 53 - n), e - (53 - n))
    ELSE RoundTie(sg, WShr(s, n - 53), s[2] % Pow2(n - 53), Pow2(n - 54),
                  e + (n - 53))

\* the float nearest to s * 2^e (ties to even), s > 0 a wide integer
RoundNorm(sg, s, e) == RoundBits(sg, s, e, WBitLen(s))

FZero == <<0, 0, 0, 0>>

FMant(x) == <<x[2], x[3]>>

\* |x| < |y|
FMagLt(x, y) ==
    IF y[1] = 0 THEN FALSE
    ELSE IF x[1] = 0 THEN TRUE
    ELSE x[4] < y[4] \/ (x[4] = y[4] /\ WLt(FMant(x), FMant(y)))

FLt(x, y) ==
    IF x[1] # y[1] THEN x[1] < y[1]
    ELSE IF x[1] = 1 THEN FMagLt(x, y)
    ELSE IF x[1] = -1 THEN FMagLt(y, x)
    ELSE FALSE

FLe(x, y) == x = y \/ FLt(x, y)

FNeg(x) == <<0 - x[1], x[2], x[3], x[4]>>

\* |a| + |b| with sign sg, |a| >= |b| > 0
FMagAdd(sg, a, b) ==
    LET X == WShl(FMant(a), 3)
        Y == WShrSticky(WShl(FMant(b), 3), a[4] - b[4])
    IN  RoundNorm(sg, WAdd(X, Y), a[4] - 3)

\* |a| - |b| with sign sg, |a| > |b| > 0
FMagSub(sg, a, b) ==
    LET X == WShl(FMant(a), 3)
        Y == WShrSticky(WShl(FMant(b), 3), a[4] - b[4])
    IN  RoundNorm(sg, WSub(X, Y), a[4] - 3)

\* x + y
FAdd(x, y) ==
    IF x[1] = 0 THEN y
    ELSE IF y[1] = 0 THEN x
    ELSE IF x[1] = y[1]
         THEN IF FMagLt(x, y) THEN FMagAdd(x[1], y, x) ELSE FMagAdd(x[1], x, y)
         ELSE IF FMant(x) = FMant(y) /\ x[4] = y[4] THEN FZero
         ELSE IF FMagLt(x, y) THEN FMagSub(y[1], y, x) ELSE FMagSub(x[1], x, y)

\* x - y
FSub(x, y) == FAdd(x, FNeg(y))

\* max(x, y) as the builtin computes it: y only when y > x
FMax(x, y) == IF FLt(x, y) THEN y ELSE x

\* the radix-16 digit qhat estimated from the high limbs is the true digit
\* or one above it: r16 the remainder times 16, p the divisor times qhat
DivFix(r16, d, q16, qhat, p) ==
    IF WLt(r16, p) THEN <<WSub(WAdd(r16, d), p), WAdd(q16, <<0, qhat - 1>>)>>
                   ELSE <<WSub(r16, p), WAdd(q16, <<0, qhat>>)>>

DivEstimate(r16, d, q16, qhat) == DivFix(r16, d, q16, qhat, WScale(d, qhat))

\* one step of long division in radix 16: s = <<remainder, quotient so far>>
\* with remainder < d
DivDigit(s, d, r16) ==
    DivEstimate(r16, d, WScale(s[2], 16), r16[1] \div d[1])

\* i more radix-16 digits of the quotient
RECURSIVE DivLoop(_, _, _)
DivLoop(s, d, i) ==
    IF i = 0 \/ s[2][1] < 0 THEN s
    ELSE DivLoop(DivDigit(s, d, WScale(s[1], 16)), d, i - 1)

\* the quotient qr = <<remainder, 57 quotient bits>> rounded
DivRound(sg, qr, e) ==
    RoundNorm(sg, WAdd(WDouble(qr[2]), <<0, IF qr[1] # <<0, 0>> THEN 1 ELSE 0>>), e)

\* x / y, y # 0
FDiv(x, y) ==
    IF x[1] = 0 THEN FZero
    ELSE DivRound(x[1] * y[1],
                  DivLoop(IF WLt(FMant(x), FMant(y))
                          THEN <<FMant(x), <<0, 0>>>>
                          ELSE <<WSub(FMant(x), FMant(y)), <<0, 1>>>>,
                          FMant(y), 14),
                  x[4] - y[4] - 57)

\* one step of the shift-and-add product on the low nb bits of my:
\* s = <<my, acc, g, st>>, acc the high part of the partial product, g the
\* bits last shifted out of it, st whether an earlier bit shifted out was
\* set; a1 is acc plus mx times those bits
MulShift(s, a1, nb) ==
    <<WShr(s[1], nb), WShr(a1, nb), a1[2] % Pow2(nb), s[4] \/ s[3] # 0>>

MulStep(mx, s, nb) ==
    MulShift(s, WAdd(s[2], WScale(mx, s[1][2] % Pow2(nb))), nb)

RECURSIVE MulLoop(_, _, _)
MulLoop(mx, s, i) ==
    IF i = 0 \/ s[3] < 0 THEN s
    ELSE MulLoop(mx, MulStep(mx, s, 4), i - 1)

\* the product r = <<0, high part, bits shifted out last, sticky>> rounded
MulRound(sg, r, e) ==
    RoundNorm(sg, WAdd(WShl(r[2], 4),
                       <<0, IF r[4] /\ r[3] % 2 = 0 THEN r[3] + 1 ELSE r[3]>>), e)

\* x * y
FMul(x, y) ==
    IF x[1] = 0 \/ y[1] = 0 THEN FZero
    ELSE MulRound(x[1] * y[1],
                  MulLoop(FMant(x),
                          MulStep(FMant(x), <<FMant(y), <<0, 0>>, 0, FALSE>>, 1), 13),
                  x[4] + y[4] + 49)

\* |x|
FAbs(x) == <<x[1] * x[1], x[2], x[3], x[4]>>

\* float(n) for an int n, 0 <= n < 2^27
IntToF(n) == IF n = 0 THEN FZero ELSE RoundNorm(1, <<0, n>>, 0)

\* float literals of the sources
F_1_0   == <<1, 33554432, 0, -52>>
F_0_5   == <<1, 33554432, 0, -53>>
F_0_1   == <<1, 53687091, 26843546, -56>>
F_0_15  == <<1, 40265318, 53687091, -55>>
F_0_05  == <<1, 53687091, 26843546, -57>>
F_0_995 == <<1, 66773319, 91268055, -53>>

\* ------------------------------------------------------------------------
\* JSON numbers: the decimal text json.dump writes for a number and the
\* number json.load reads from it.  A wide integer is the little-endian
\* sequence of seven 27-bit limbs; a decimal is the record of its sign,
\* its digits as a wide integer D and its exponent t, of value D * 10^t.
\* ------------------------------------------------------------------------
Limbs == 1..7

BLimb(b, i) == IF i \in Limbs THEN b[i] ELSE 0

BZero == [i \in Limbs |-> 0]

BOne == [i \in Limbs |-> IF i = 1 THEN 1 ELSE 0]

\* the wide integer of the significand pair w
BFromW(w) == [i \in Limbs |-> IF i = 1 THEN w[2] ELSE IF i = 2 THEN w[1] ELSE 0]

\* the carry out of limb i in b * c + k
RECURSIVE BCarry(_, _, _, _)
BCarry(b, c, k, i) ==
    IF i = 0 THEN k ELSE (b[i] * c + BCarry(b, c, k, i - 1)) \div B27

\* b * c + k for a factor c <= 15 and k < 16
BMulAdd(b, c, k) ==
    [i \in Limbs |-> (b[i] * c + BCarry(b, c, k, i - 1)) % B27]

\* the remainder carried out of limb i in b \div d, the limbs taken from
\* the top
RECURSIVE BRem(_, _, _)
BRem(b, d, i) ==
    IF i \notin Limbs THEN 0 ELSE (BRem(b, d, i + 1) * B27 + b[i]) % d

\* b \div d for a divisor d <= 15
BDivSmall(b, d) ==
    [i \in Limbs |-> (BRem(b, d, i + 1) * B27 + b[i]) \div d]

\* b * 2^s
BShl(b, s) ==
    [i \in Limbs |->
        (BLimb(b, i - (s \div 27)) % Pow2(27 - (s % 27))) * Pow2(s % 27)
        + (BLimb(b, i - (s \div 27) - 1) \div Pow2(27 - (s % 27)))]

\* b \div 2^s
BShr(b, s) ==
    [i \in Limbs |->
        (BLimb(b, i + (s \div 27)) \div Pow2(s % 27))
        + (BLimb(b, i + (s \div 27) + 1) % Pow2(s % 27)) * Pow2(27 - (s % 27))]

BLt(a, b) ==
    \E i \in Limbs : a[i] < b[i] /\ \A j \in Limbs : j > i => a[j] = b[j]

BBitLen(b) ==
    IF b = BZero THEN 0
    ELSE LET top == CHOOSE i \in Limbs :
                        b[i] # 0 /\ \A j \in Limbs : j > i => b[j] = 0
         IN  27 * (top - 1) + BitLen(b[top])

\* b * 10^q (the run of multiplications split in halves)
RECURSIVE BMulPow10(_, _)
BMulPow10(b, q) ==
    IF q = 0 \/ b = BZero THEN b
    ELSE IF q = 1 THEN BMulAdd(b, 10, 0)
    ELSE BMulPow10(BMulPow10(b, q \div 2), q - (q \div 2))

\* a quotient with the flag of a nonzero remainder
Quotient(q, sticky) == [q |-> q, sticky |-> sticky]

\* b \div 2^s
BShrSticky(b, s) == Quotient(BShr(b, s), BShl(BShr(b, s), s) # b)

BDivTen(d) == Quotient(BDivSmall(d.q, 10), d.sticky \/ BRem(d.q, 10, 1) # 0)

\* d.q \div 10^k
RECURSIVE BDivPow10(_, _)
BDivPow10(d, k) ==
    IF k = 0 \/ d.q = BZero THEN d
    ELSE IF k = 1 THEN BDivTen(d)
    ELSE BDivPow10(BDivPow10(d, k \div 2), k - (k \div 2))

\* the integer nearest to half of d.q, d.sticky telling that d.q was
\* truncated; ties go to the even integer
HalfEven(d) ==
    IF d.q[1] % 2 = 1 /\ (d.sticky \/ BShr(d.q, 1)[1] % 2 = 1)
    THEN BMulAdd(BShr(d.q, 1), 1, 1)
    ELSE BShr(d.q, 1)

\* the numerator and the binary scale of |x|: |x| = FNum(x) / 2^FScale(x)
FNum(x) == BShl(BFromW(FMant(x)), IF x[4] > 0 THEN x[4] ELSE 0)

FScale(x) == IF x[4] < 0 THEN 0 - x[4] ELSE 0

\* |x| >= 10^E
GePow10(x, E) ==
    IF E >= 0 THEN ~BLt(FNum(x), BShl(BMulPow10(BOne, E), FScale(x)))
              ELSE ~BLt(BMulPow10(FNum(x), 0 - E), BShl(BOne, FScale(x)))

\* the decimal exponent of x, 10^-5 <= |x| < 10^17
Exp10(x) == CHOOSE E \in -5..16 : GePow10(x, E) /\ ~GePow10(x, E + 1)

\* the integer nearest to |x| * 10^q (ties to even)
ScaledDigits(x, q) ==
    IF q >= 0
    THEN HalfEven(BShrSticky(BMulAdd(BMulPow10(FNum(x), q), 2, 0), FScale(x)))
    ELSE HalfEven(BDivPow10(BShrSticky(BMulAdd(FNum(x), 2, 0), FScale(x)), 0 - q))

Decimal(sg, digits, exp10) == [sg |-> sg, digits |-> digits, exp10 |-> exp10]

\* x to n significant digits, the text '%.{n}g' formats
FormatDigits(x, n, E) == Decimal(x[1], ScaledDigits(x, n - 1 - E), E - n + 1)

\* the quotient of the digits scaled by 2^126 and by the power of ten
ParseQuotient(d) ==
    IF d.exp10 >= 0 THEN Quotient(BMulPow10(d.digits, d.exp10), FALSE)
    ELSE BDivPow10(Quotient(BShl(d.digits, 126), FALSE), 0 - d.exp10)

\* the float nearest to sg * q.q * 2^e, q.q of n bits
ParseRound(sg, q, e, n) ==
    IF n <= 53
    THEN Pack(sg, <<BShl(q.q, 53 - n)[2], BShl(q.q, 53 - n)[1]>>, e - (53 - n))
    ELSE LET top == BShr(q.q, n - 54)
             m   == HalfEven(Quotient(top, q.sticky \/ BShl(top, n - 54) # q.q))
         IN  Pack(sg, <<m[2], m[1]>>, e + (n - 53))

\* float(text): the float nearest to the decimal d (ties to even)
ParseFloat(d) ==
    IF d.digits = BZero THEN FZero
    ELSE ParseRound(d.sg, ParseQuotient(d),
                    IF d.exp10 >= 0 THEN 0 ELSE -126,
                    BBitLen(ParseQuotient(d).q))

\* the number written to 15 significant digits
float_repr_15(x, style) ==
    IF x = FZero THEN Decimal(0, BZero, 0)
    ELSE FormatDigits(x, 15, Exp10(x))

\* float.__repr__: the fewest digits that read back as x ('short' style),
\* or 17 digits ('legacy' style)
ReprStyles == {"short", "legacy"}

RECURSIVE ReprDigits(_, _, _)
ReprDigits(x, E, n) ==
    IF n >= 17 \/ ParseFloat(FormatDigits(x, n, E)) = x THEN n
    ELSE ReprDigits(x, E, n + 1)

float_repr(x, style) ==
    IF x = FZero THEN Decimal(0, BZero, 0)
    ELSE IF style = "legacy" THEN FormatDigits(x, 17, Exp10(x))
    ELSE FormatDigits(x, ReprDigits(x, Exp10(x), 1), Exp10(x))

\* the digits of n >= 0, least significant first
RECURSIVE int_repr(_)
int_repr(n) == IF n < 10 THEN <<n>> ELSE <<n % 10>> \o int_repr(n \div 10)

\* int(text)
RECURSIVE ParseInt(_)
ParseInt(ds) == IF ds = <<>> THEN 0 ELSE ds[1] + 10 * ParseInt(Tail(ds))

\* a float written by json.dump and read back by json.load
JsonFloat(x, style) == ParseFloat(float_repr(x, style))

\* an int written by json.dump and read back by json.load
JsonInt(n) == ParseInt(int_repr(n))

\* ------------------------------------------------------------------------
\* state
\* ------------------------------------------------------------------------
VARIABLES
    brain,                      \* which brain class main() constructed
    weights,                    \* FoxyBrain.weights
    action_counts,              \* .action_counts (both brains)
    positive_feedback,          \* .positive_feedback (both brains)
    exploration_rate,           \* FoxyBrain.exploration_rate
    epsilon,                    \* FoxyBrainDQN.epsilon
    policy_net,                 \* parameters of the online network
    target_net,                 \* parameters of the target network
    memory,                     \* FoxyBrainDQN.memory.buffer
    total_clicks,
    total_actions,
    last_click_time,
    current_time,
    current_state,              \* features computed by the last choose_action
    current_action_idx,
    disk,                       \* the files save_brain writes
    current_action,             \* FoxyWidget.current_action
    current_frame,
    action_duration,
    user_clicked_during_action,
    current_non_idle_action,
    drag_position,
    last_call,                  \* the most recent call on the brain, its result
    ncalls,                     \* number of calls made on the brain
    ep_clicked,                 \* a left click happened in the running episode
    idle_clicked,               \* a left click happened in the last idle dwell
    scenario                    \* the actions a scripted run feeds

brainVars == <<weights, action_counts, positive_feedback, exploration_rate,
               epsilon, policy_net, target_net, memory, total_clicks,
               total_actions, last_click_time, current_time, current_state,
               current_action_idx, disk>>

widgetVars == <<current_action, current_frame, action_duration,
                user_clicked_during_action, current_non_idle_action,
                drag_position>>

vars == <<brain, brainVars, widgetVars, last_call, ncalls, ep_clicked,
          idle_clicked, scenario>>

\* ------------------------------------------------------------------------
\* FoxyBrain (src/foxy_main.py)
\* ------------------------------------------------------------------------
None == "None"

\* optional structured values: Nil for None, Some(x) otherwise
Nil == <<>>

Some(x) == <<x>>

\* self.actions, in list order
Actions == <<"excited", "relax", "sleep", "walk">>

ActionSet == {Actions[i] : i \in 1..Len(Actions)}

action_size == Len(Actions)

learning_rate_positive == F_0_15

\* the negative rate set to the positive one
learning_rate_negative_Swapped == F_0_15

learning_rate_negative == F_0_05

\* the literal 0.1 of the negative update
weight_floor == F_0_1

initial_exploration_rate == F_0_5

\* the dict {action: v for action in self.actions}
Uniform(v) == [a \in ActionSet |-> v]

\* weights[action] += learning_rate_positive
\* the positive update with the sign of the rate flipped
PositiveUpdate_Minus(w) == FSub(w, learning_rate_positive)

\* the positive update clipped at an upper cap
PositiveUpdate_Capped(w) ==
    IF FLt(FAdd(F_1_0, learning_rate_positive), FAdd(w, learning_rate_positive))
    THEN FAdd(F_1_0, learning_rate_positive)
    ELSE FAdd(w, learning_rate_positive)

PositiveUpdate(w) == FAdd(w, learning_rate_positive)

\* the negative update clamped at half the floor
NegativeUpdate_HalfFloor(w) == FMax(F_0_05, FSub(w, learning_rate_negative))

\* weights[action] = max(0.1, weights[action] - learning_rate_negative)
\* the negative update without its max(0.1, ...)
NegativeUpdate_NoFloor(w) == FSub(w, learning_rate_negative)

NegativeUpdate(w) == FMax(weight_floor, FSub(w, learning_rate_negative))

\* the document with the exploration rate added
BrainData_WithRate(w, ac, pf) ==
    [weights |-> w, action_counts |-> ac, positive_feedback |-> pf,
     exploration_rate |-> F_0_5]

\* the document save_brain dumps
BrainData(w, ac, pf) ==
    [weights |-> w, action_counts |-> ac, positive_feedback |-> pf]

\* A save file is Nil when it does not exist, and else Some(file): file is
\* the dict json.dump was given when its text is a JSON object (the numbers
\* of the text are formed where the file is read), and a record with the
\* field kind when its text is not a JSON object.
\* a text json.load rejects
NotJson == [kind |-> "garbage"]

\* a JSON text that is not an object
NotObject == [kind |-> "array"]

\* sum() of floats adding left to right, as interpreters before 3.12 do
NaiveSum(xs) ==
    FAdd(FAdd(FAdd(FAdd(FZero, xs[1]), xs[2]), xs[3]), xs[4])

\* one step of the compensated sum: s = <<total, compensation>>, t the
\* new total
CompensatedAdd(s, x, t) ==
    <<t, FAdd(s[2], IF FMagLt(s[1], x) THEN FAdd(FSub(x, t), s[1])
                                       ELSE FAdd(FSub(s[1], t), x))>>

CompensatedStep(s, x) == CompensatedAdd(s, x, FAdd(s[1], x))

\* the compensation added to the total when it is not zero
CompensatedEnd(s) == IF s[2][1] # 0 THEN FAdd(s[1], s[2]) ELSE s[1]

\* sum() of floats as interpreters from 3.12 on compute it (Neumaier)
CompensatedSum(xs) ==
    CompensatedEnd(CompensatedStep(CompensatedStep(CompensatedStep(
        <<FAdd(FZero, xs[1]), FZero>>, xs[2]), xs[3]), xs[4]))

\* total_weight = sum(self.weights.values())
TotalWeight(w, compensated) ==
    LET xs == [i \in 1..action_size |-> w[Actions[i]]]
    IN  IF compensated THEN CompensatedSum(xs) ELSE NaiveSum(xs)

\* the weights taken as they are, without the division
Probabilities_Unnormalized(w, tw) == [a \in ActionSet |-> w[a]]

\* probabilities = {action: weight / total_weight ...}
Probabilities(w, tw) == [a \in ActionSet |-> FDiv(w[a], tw)]

\* the value of cumulative after each iteration of the selection loop
Cumulative(p) ==
    LET c1 == FAdd(FZero, p[Actions[1]])
        c2 == FAdd(c1, p[Actions[2]])
        c3 == FAdd(c2, p[Actions[3]])
        c4 == FAdd(c3, p[Actions[4]])
    IN  <<c1, c2, c3, c4>>

\* the selection loop comparing with < instead of <=
ExploitScan_Strict(cum, rand_val) ==
    LET hits == {i \in 1..action_size : FLt(rand_val, cum[i])}
    IN  IF hits = {} THEN None
        ELSE Actions[CHOOSE i \in hits : \A j \in hits : i <= j]

\* the selection loop: the first action with rand_val <= cumulative, or
\* None when the loop ends without returning
ExploitScan(cum, rand_val) ==
    LET hits == {i \in 1..action_size : FLe(rand_val, cum[i])}
    IN  IF hits = {} THEN None
        ELSE Actions[CHOOSE i \in hits : \A j \in hits : i <= j]

\* the thresholds the selection loop compares rand_val with (Nil when the
\* normalization divides by zero)
Thresholds(w, compensated) ==
    LET tw == TotalWeight(w, compensated)
    IN  IF tw[1] = 0 THEN Nil ELSE Cumulative(Probabilities(w, tw))

\* choose_action: u and rand_val are the two random.random() draws, pick
\* the result of random.choice(self.actions), cum the thresholds
ChooseResult(cum, rate, u, rand_val, pick) ==
    IF FLt(u, rate) THEN [action |-> pick, branch |-> "explore"]
    ELSE IF cum = Nil THEN [action |-> "ZeroDivisionError", branch |-> "raise"]
    ELSE LET hit == ExploitScan(cum, rand_val)
         IN  IF hit # None THEN [action |-> hit, branch |-> "exploit"]
                           ELSE [action |-> pick, branch |-> "fallback"]

\* a call on the brain: its arguments, the draws it made and its result
Call(op, action, positive, branch, rand_val, compensated) ==
    [op |-> op, action |-> action, positive |-> positive, branch |-> branch,
     rand_val |-> rand_val, compensated |-> compensated]

\* the membership test letting the idle action through
Learnable_WithIdle(action) == action \in ActionSet \cup {"idle"}

\* action in self.actions
Learnable(action) == action \in ActionSet

ChooseCall(res, rand_val, compensated) ==
    IF res.branch = "explore"
    THEN Call("choose_action", res.action, FALSE, res.branch, FZero, FALSE)
    ELSE Call("choose_action", res.action, FALSE, res.branch, rand_val, compensated)

FoxyBrain_choose_action(cum, u, rand_val, pick, compensated) ==
    /\ last_call' = ChooseCall(ChooseResult(cum, exploration_rate, u, rand_val, pick),
                               rand_val, compensated)
    /\ ncalls' = ncalls + 1
    /\ UNCHANGED brainVars

\* what save_brain does to the file: it writes the document; or open()
\* raises and the file is left as it was; or the write raises after open()
\* truncated the file, which then holds no complete JSON text
SaveOutcomes == {"written", "open raises", "write raises"}

\* the save file after save_brain dumped data with the outcome save
Saved(file, data, save) ==
    IF save = "written" THEN Some(data)
    ELSE IF save = "open raises" THEN file
    ELSE Some(NotJson)

\* give_feedback, save_brain ending with the outcome save; a missing key
\* raises KeyError at the statement that reads it, the statements before
\* it having run
FoxyBrain_feedback(action, positive, save) ==
    /\ ncalls' = ncalls + 1
    /\ IF ~Learnable(action)
       THEN /\ last_call' = Call("give_feedback", action, positive, "ignored",
                                 FZero, FALSE)
            /\ UNCHANGED brainVars
       ELSE IF action \notin DOMAIN action_counts
       THEN /\ last_call' = Call("give_feedback", action, positive, "KeyError",
                                 FZero, FALSE)
            /\ UNCHANGED brainVars
       ELSE IF action \notin DOMAIN weights
       THEN /\ last_call' = Call("give_feedback", action, positive, "KeyError",
                                 FZero, FALSE)
            /\ action_counts' = [action_counts EXCEPT ![action] = @ + 1]
            /\ UNCHANGED <<weights, positive_feedback, exploration_rate, epsilon,
                           policy_net, target_net, memory, total_clicks,
                           total_actions, last_click_time, current_time,
                           current_state, current_action_idx, disk>>
       ELSE IF positive /\ action \notin DOMAIN positive_feedback
       THEN /\ last_call' = Call("give_feedback", action, positive, "KeyError",
                                 FZero, FALSE)
            /\ action_counts' = [action_counts EXCEPT ![action] = @ + 1]
            /\ weights' = [weights EXCEPT ![action] = PositiveUpdate(@)]
            /\ UNCHANGED <<positive_feedback, exploration_rate, epsilon,
                           policy_net, target_net, memory, total_clicks,
                           total_actions, last_click_time, current_time,
                           current_state, current_action_idx, disk>>
       ELSE /\ last_call' = Call("give_feedback", action, positive,
                                 IF save = "written" THEN "updated" ELSE "OSError",
                                 FZero, FALSE)
            /\ action_counts' = [action_counts EXCEPT ![action] = @ + 1]
            /\ weights' = [weights EXCEPT ![action] =
                              IF positive THEN PositiveUpdate(@)
                                          ELSE NegativeUpdate(@)]
            /\ positive_feedback' =
                   IF positive THEN [positive_feedback EXCEPT ![action] = @ + 1]
                               ELSE positive_feedback
            /\ disk' = [disk EXCEPT !.foxy_brain_json =
                     Saved(@, BrainData(weights', action_counts', positive_feedback'),
                           save)]
            /\ UNCHANGED <<exploration_rate, epsilon, policy_net, target_net,
                           memory, total_clicks, total_actions, last_click_time,
                           current_time, current_state, current_action_idx>>

\* give_feedback on a writable disk
FoxyBrain_give_feedback(action, positive) ==
    FoxyBrain_feedback(action, positive, "written")

\* ------------------------------------------------------------------------
\* FoxyBrainDQN (src/foxy_mainDQN.py)
\* ------------------------------------------------------------------------
\* no floor under epsilon
epsilon_min_Zero == FZero

epsilon_min == F_0_1

epsilon_decay == F_0_995

batch_size == 32

memory_capacity == 2000

target_sync_period == 100

reward_positive == F_1_0

reward_negative == FNeg(F_0_1)

Min(a, b) == IF a < b THEN a ELSE b

Max(a, b) == IF a < b THEN b ELSE a

\* sum(self.action_counts.values())
CountSum(ac) ==
    ac[Actions[1]] + ac[Actions[2]] + ac[Actions[3]] + ac[Actions[4]]

\* get_state: each feature as the pair <<numerator, denominator>> of the
\* quotient the code converts to float32
get_state(ct, lct, tc, ta, ac, pf) ==
    LET total_count == CountSum(ac) + 1
    IN  [time_normalized |-> <<ct % 1000, 1000>>,
         recency         |-> <<Min(ct - lct, 500), 500>>,
         click_rate      |-> <<tc, Max(ta, 1)>>,
         success_rate    |-> <<pf[Actions[1]], Max(ac[Actions[1]], 1)>>,
         action_dist     |-> [i \in 1..action_size |-> <<ac[Actions[i]], total_count>>]]

\* a push that discards the new transition when the buffer is full
Push_DropNewest(buffer, t) ==
    IF Len(buffer) >= memory_capacity THEN buffer ELSE Append(buffer, t)

\* ReplayBuffer.push on a deque(maxlen=capacity)
Push(buffer, t) ==
    IF Len(buffer) >= memory_capacity THEN Append(Tail(buffer), t)
                                      ELSE Append(buffer, t)

\* the fields of a FoxyBrainDQN and its save directory
DQNState ==
    [epsilon |-> epsilon, policy_net |-> policy_net, target_net |-> target_net,
     memory |-> memory, action_counts |-> action_counts,
     positive_feedback |-> positive_feedback, total_clicks |-> total_clicks,
     total_actions |-> total_actions, last_click_time |-> last_click_time,
     current_time |-> current_time, current_state |-> current_state,
     current_action_idx |-> current_action_idx, disk |-> disk]

\* the fields after a method left them as s
SetDQNState(s) ==
    /\ epsilon' = s.epsilon
    /\ policy_net' = s.policy_net
    /\ target_net' = s.target_net
    /\ memory' = s.memory
    /\ action_counts' = s.action_counts
    /\ positive_feedback' = s.positive_feedback
    /\ total_clicks' = s.total_clicks
    /\ total_actions' = s.total_actions
    /\ last_click_time' = s.last_click_time
    /\ current_time' = s.current_time
    /\ current_state' = s.current_state
    /\ current_action_idx' = s.current_action_idx
    /\ disk' = s.disk
    /\ UNCHANGED <<weights, exploration_rate>>

\* self.get_state() on the fields s
StateOf(s) ==
    get_state(s.current_time, s.last_click_time, s.total_clicks, s.total_actions,
              s.action_counts, s.positive_feedback)

\* choose_action counting the choice as rewarded
Chosen_Rewarded(s, idx) ==
    [s EXCEPT !.current_time = @ + 1,
              !.current_state = Some(StateOf([s EXCEPT !.current_time = @ + 1])),
              !.current_action_idx = Some(idx),
              !.action_counts[Actions[idx + 1]] = @ + 1,
              !.positive_feedback[Actions[idx + 1]] = @ + 1,
              !.total_actions = @ + 1]

\* choose_action: the clock advances and the state is taken before the
\* counters of the chosen index are incremented
Chosen(s, idx) ==
    [s EXCEPT !.current_time = @ + 1,
              !.current_state = Some(StateOf([s EXCEPT !.current_time = @ + 1])),
              !.current_action_idx = Some(idx),
              !.action_counts[Actions[idx + 1]] = @ + 1,
              !.total_actions = @ + 1]

\* choose_action: u is the random.random() draw, idx the index that
\* random.randint or the argmax of the Q-values yields
FoxyBrainDQN_choose_action(u, idx) ==
    /\ SetDQNState(Chosen(DQNState, idx))
    /\ last_call' = Call("choose_action", Actions[idx + 1], FALSE,
                         IF FLt(u, epsilon) THEN "explore" ELSE "exploit",
                         FZero, FALSE)
    /\ ncalls' = ncalls + 1

\* train without the test of the memory size
Train_NoGuard(mem, pnet, tnet, ta) ==
    [policy_net |-> pnet + 1,
     target_net |-> IF ta % target_sync_period = 0 THEN pnet + 1 ELSE tnet]

\* train copying the online parameters after every optimizer step
Train_SyncEveryStep(mem, pnet, tnet, ta) ==
    IF Len(mem) < batch_size THEN [policy_net |-> pnet, target_net |-> tnet]
    ELSE [policy_net |-> pnet + 1, target_net |-> pnet + 1]

\* train: one optimizer step on a sampled minibatch, then the periodic copy
\* of the online parameters into the target network
Train(mem, pnet, tnet, ta) ==
    IF Len(mem) < batch_size THEN [policy_net |-> pnet, target_net |-> tnet]
    ELSE [policy_net |-> pnet + 1,
          target_net |-> IF ta % target_sync_period = 0 THEN pnet + 1 ELSE tnet]

\* the click statistics without total_clicks
Rewarded_NoClickCount(s, action, positive) ==
    IF positive
    THEN [s EXCEPT !.positive_feedback[action] = @ + 1,
                   !.last_click_time = s.current_time]
    ELSE s

\* give_feedback, its statements in order: the click statistics,
Rewarded(s, action, positive) ==
    IF positive
    THEN [s EXCEPT !.positive_feedback[action] = @ + 1,
                   !.total_clicks = @ + 1,
                   !.last_click_time = s.current_time]
    ELSE s

\* the experience stored under the index of the action chosen last
Stored_ChosenAction(s, action, positive) ==
    IF s.current_state # Nil
    THEN [s EXCEPT !.memory =
              Push(@, <<s.current_state[1],
                        s.current_action_idx[1],
                        IF positive THEN reward_positive ELSE reward_negative,
                        StateOf(s), FALSE>>)]
    ELSE s

\* the experience stored when a state was taken by choose_action,
Stored(s, action, positive) ==
    IF s.current_state # Nil
    THEN [s EXCEPT !.memory =
              Push(@, <<s.current_state[1],
                        (CHOOSE i \in 1..action_size : Actions[i] = action) - 1,
                        IF positive THEN reward_positive ELSE reward_negative,
                        StateOf(s), FALSE>>)]
    ELSE s

\* self.train(),
Trained(s, trained) ==
    [s EXCEPT !.policy_net = trained.policy_net, !.target_net = trained.target_net]

\* the decay of epsilon,
Decayed(s) ==
    [s EXCEPT !.epsilon = FMax(epsilon_min, FMul(@, epsilon_decay))]

\* and save_brain: the checkpoint and the statistics
SavedDQN(s) ==
    [s EXCEPT !.disk.model_pth = Some([policy_net |-> s.policy_net,
                                       target_net |-> s.target_net,
                                       optimizer |-> s.policy_net,
                                       epsilon |-> s.epsilon]),
              !.disk.stats_json = Some([action_counts |-> s.action_counts,
                                        positive_feedback |-> s.positive_feedback,
                                        total_clicks |-> s.total_clicks,
                                        total_actions |-> s.total_actions,
                                        last_click_time |-> s.last_click_time,
                                        current_time |-> s.current_time])]

TrainedOn(s) ==
    Trained(s, Train(s.memory, s.policy_net, s.target_net, s.total_actions))

\* the fields after give_feedback on a learnable action
Updated(s, action, positive) ==
    SavedDQN(Decayed(TrainedOn(Stored(Rewarded(s, action, positive),
                                      action, positive))))

FoxyBrainDQN_give_feedback(action, positive) ==
    /\ ncalls' = ncalls + 1
    /\ IF ~Learnable(action)
       THEN /\ last_call' = Call("give_feedback", action, positive, "ignored",
                                 FZero, FALSE)
            /\ UNCHANGED brainVars
       ELSE IF action \notin ActionSet
       THEN /\ last_call' = Call("give_feedback", action, positive, "KeyError",
                                 FZero, FALSE)
            /\ UNCHANGED brainVars
       ELSE /\ last_call' = Call("give_feedback", action, positive, "updated",
                                 FZero, FALSE)
            /\ SetDQNState(Updated(DQNState, action, positive))

\* the brain main() constructed receives the call
give_feedback(action, positive) ==
    \/ /\ brain = "FoxyBrain"
       /\ FoxyBrain_give_feedback(action, positive)
    \/ /\ brain = "FoxyBrainDQN"
       /\ FoxyBrainDQN_give_feedback(action, positive)

\* ------------------------------------------------------------------------
\* random draws
\* ------------------------------------------------------------------------
\* the largest value random.random() returns, 1 - 2^-53
F_MaxDraw == <<1, 67108863, 134217727, -53>>

F_0_25 == <<1, 33554432, 0, -54>>

F_0_999 == <<1, 67041755, 18253611, -53>>

\* random.choice over a list that also holds the idle action
Choices_WithIdle == ActionSet \cup {"idle"}

\* the values random.choice(self.actions) returns
Choices == ActionSet

\* values drawn for the exploration test
ExploreDraws == {FZero, F_0_5, F_MaxDraw}

\* values drawn for rand_val
RandDraws == {FZero, F_0_25, F_0_5, F_0_999, F_MaxDraw}

\* choose_action under every draw, the thresholds computed once
FoxyBrain_choose_any(cum, compensated) ==
    \E u \in ExploreDraws, rand_val \in RandDraws, pick \in Choices :
        FoxyBrain_choose_action(cum, u, rand_val, pick, compensated)

choose_action ==
    \/ /\ brain = "FoxyBrain"
       /\ \E compensated \in BOOLEAN :
              FoxyBrain_choose_any(Thresholds(weights, compensated), compensated)
    \/ /\ brain = "FoxyBrainDQN"
       /\ \E u \in ExploreDraws, idx \in 0..(action_size - 1) :
              FoxyBrainDQN_choose_action(u, idx)

\* ------------------------------------------------------------------------
\* FoxyWidget (the same code in both files)
\* ------------------------------------------------------------------------
min_idle_duration == 48

max_idle_duration == 240

action_frame_duration == 72

frames_per_loop == 24

\* draws reaching below min_idle_duration
IdleDraws_Short == {min_idle_duration - 1, min_idle_duration, max_idle_duration}

\* values drawn for random.randint(min_idle_duration, max_idle_duration)
IdleDraws == {min_idle_duration, min_idle_duration + 1, max_idle_duration}

\* start_action leaving user_clicked_during_action as it is
start_action_KeepClick(action, idle_draw) ==
    /\ current_action' = action
    /\ current_frame' = 0
    /\ user_clicked_during_action' = user_clicked_during_action
    /\ IF action = "idle"
       THEN /\ action_duration' = idle_draw
            /\ current_non_idle_action' = None
       ELSE /\ action_duration' = action_frame_duration
            /\ current_non_idle_action' = action

\* start_action never recording the action in current_non_idle_action
start_action_Forget(action, idle_draw) ==
    /\ current_action' = action
    /\ current_frame' = 0
    /\ user_clicked_during_action' = FALSE
    /\ action_duration' = IF action = "idle" THEN idle_draw
                                             ELSE action_frame_duration
    /\ current_non_idle_action' = None

\* start_action giving an action one loop of the animation
start_action_OneLoop(action, idle_draw) ==
    /\ current_action' = action
    /\ current_frame' = 0
    /\ user_clicked_during_action' = FALSE
    /\ IF action = "idle"
       THEN /\ action_duration' = idle_draw
            /\ current_non_idle_action' = None
       ELSE /\ action_duration' = frames_per_loop
            /\ current_non_idle_action' = action

start_action(action, idle_draw) ==
    /\ current_action' = action
    /\ current_frame' = 0
    /\ user_clicked_during_action' = FALSE
    /\ IF action = "idle"
       THEN /\ action_duration' = idle_draw
            /\ current_non_idle_action' = None
       ELSE /\ action_duration' = action_frame_duration
            /\ current_non_idle_action' = action

\* bound on the episodes of a run
MaxEpisodes == 2

\* update_animation advancing the frame and leaving the countdown alone
TickRun_FrameOnly ==
    /\ action_duration - 1 > 0
    /\ current_frame' = (current_frame + 1) % frames_per_loop
    /\ UNCHANGED <<brain, brainVars, current_action, user_clicked_during_action,
                   current_non_idle_action, drag_position, last_call, ncalls,
                   ep_clicked, idle_clicked, scenario, action_duration>>

\* update_animation while the countdown has not expired
TickRun ==
    /\ action_duration - 1 > 0
    /\ current_frame' = (current_frame + 1) % frames_per_loop
    /\ action_duration' = action_duration - 1
    /\ UNCHANGED <<brain, brainVars, current_action, user_clicked_during_action,
                   current_non_idle_action, drag_position, last_call, ncalls,
                   ep_clicked, idle_clicked, scenario>>

\* current_action is idle exactly when current_non_idle_action is None: a
\* finish_action that both reports an episode and chooses does not occur
WidgetCoherent == (current_action = "idle") <=> (current_non_idle_action = None)

\* update_animation, the countdown expiring in idle: finish_action asks the
\* brain for the next action and starts it
FinishIdleWithin(calls) ==
    /\ action_duration - 1 <= 0
    /\ current_non_idle_action = None
    /\ current_action = "idle"
    /\ ncalls < calls
    /\ choose_action
    /\ IF last_call'.branch = "raise"
       THEN /\ current_frame' = (current_frame + 1) % frames_per_loop
            /\ action_duration' = action_duration - 1
            /\ UNCHANGED <<current_action, user_clicked_during_action,
                           current_non_idle_action>>
       ELSE start_action(last_call'.action, min_idle_duration)
    /\ ep_clicked' = FALSE
    /\ UNCHANGED <<brain, drag_position, idle_clicked, scenario>>

\* the run is followed for MaxEpisodes episodes
FinishIdle == FinishIdleWithin(2 * MaxEpisodes)

\* update_animation, the countdown expiring in an action: finish_action
\* reports the episode to the brain and returns to idle
FinishEpisode ==
    /\ action_duration - 1 <= 0
    /\ current_action # "idle"
    /\ IF current_non_idle_action # None
       THEN give_feedback(current_non_idle_action, user_clicked_during_action)
       ELSE UNCHANGED <<brainVars, last_call, ncalls>>
    /\ \E idle_draw \in IdleDraws : start_action("idle", idle_draw)
    /\ idle_clicked' = FALSE
    /\ UNCHANGED <<brain, drag_position, ep_clicked, scenario>>

\* mousePressEvent registering the click whatever the widget is doing
mousePressEvent_Always(button) ==
    /\ IF button = "left"
       THEN /\ drag_position' = "pos"
            /\ user_clicked_during_action' = TRUE
            /\ ep_clicked' = IF current_action # "idle" THEN TRUE ELSE ep_clicked
            /\ idle_clicked' = IF current_action = "idle" THEN TRUE ELSE idle_clicked
       ELSE UNCHANGED <<drag_position, user_clicked_during_action, ep_clicked,
                        idle_clicked>>
    /\ UNCHANGED <<brain, brainVars, current_action, current_frame,
                   action_duration, current_non_idle_action, last_call, ncalls,
                   scenario>>

mousePressEvent(button) ==
    /\ IF button = "left"
       THEN /\ drag_position' = "pos"
            /\ user_clicked_during_action' =
                   IF current_non_idle_action # None THEN TRUE
                   ELSE user_clicked_during_action
            /\ ep_clicked' = IF current_action # "idle" THEN TRUE ELSE ep_clicked
            /\ idle_clicked' = IF current_action = "idle" THEN TRUE ELSE idle_clicked
       ELSE UNCHANGED <<drag_position, user_clicked_during_action, ep_clicked,
                        idle_clicked>>
    /\ UNCHANGED <<brain, brainVars, current_action, current_frame,
                   action_duration, current_non_idle_action, last_call, ncalls,
                   scenario>>

MousePress == \E button \in {"left", "right"} : mousePressEvent(button)

mouseReleaseEvent ==
    /\ drag_position' = None
    /\ UNCHANGED <<brain, brainVars, current_action, current_frame,
                   action_duration, user_clicked_during_action,
                   current_non_idle_action, last_call, ncalls, ep_clicked,
                   idle_clicked, scenario>>

\* ------------------------------------------------------------------------
\* construction
\* ------------------------------------------------------------------------
NoFiles == [foxy_brain_json |-> Nil, model_pth |-> Nil, stats_json |-> Nil]

NoCall == Call(None, None, FALSE, None, FZero, FALSE)

\* the dicts __init__ sets before load_brain
Defaults == BrainData(Uniform(F_1_0), Uniform(0), Uniform(0))

\* data.get(key, default) on the object read, for a map of floats
JsonGetFloats(data, key, default, style) ==
    IF key \in DOMAIN data
    THEN [a \in DOMAIN data[key] |-> JsonFloat(data[key][a], style)]
    ELSE default

\* data.get(key, default) on the object read, for a map of integers
JsonGetInts(data, key, default) ==
    IF key \in DOMAIN data
    THEN [a \in DOMAIN data[key] |-> JsonInt(data[key][a])]
    ELSE default

\* load_brain: the dicts it leaves; a missing file is skipped, and a text
\* json.load rejects or a value without get raise inside the try block
\* before the first assignment
load_brain(doc, style) ==
    IF doc = Nil THEN Defaults
    ELSE IF "kind" \in DOMAIN doc[1] THEN Defaults
    ELSE BrainData(JsonGetFloats(doc[1], "weights", Defaults.weights, style),
                   JsonGetInts(doc[1], "action_counts",
                               Defaults.action_counts),
                   JsonGetInts(doc[1], "positive_feedback",
                               Defaults.positive_feedback))

\* the fields of a FoxyBrain constructed over the save file doc
FoxyBrainLoaded(doc, loaded) ==
    /\ brain = "FoxyBrain"
    /\ weights = loaded.weights
    /\ action_counts = loaded.action_counts
    /\ positive_feedback = loaded.positive_feedback
    /\ exploration_rate = initial_exploration_rate
    /\ disk = [NoFiles EXCEPT !.foxy_brain_json = doc]
    /\ epsilon = None /\ policy_net = None /\ target_net = None
    /\ memory = None /\ total_clicks = None /\ total_actions = None
    /\ last_click_time = None /\ current_time = None
    /\ current_state = Nil /\ current_action_idx = Nil

\* FoxyBrain.__init__ with the save file holding doc
FoxyBrainInit(doc) ==
    \E style \in ReprStyles : FoxyBrainLoaded(doc, load_brain(doc, style))

\* the fields FoxyBrainDQN.__init__ sets over an empty save directory
FreshDQN ==
    [epsilon |-> F_1_0, policy_net |-> 0, target_net |-> 0, memory |-> <<>>,
     action_counts |-> Uniform(0), positive_feedback |-> Uniform(0),
     total_clicks |-> 0, total_actions |-> 0, last_click_time |-> 0,
     current_time |-> 0, current_state |-> Nil, current_action_idx |-> Nil,
     disk |-> NoFiles]

\* a FoxyBrainDQN whose fields are s
FoxyBrainDQNAt(s) ==
    /\ brain = "FoxyBrainDQN"
    /\ epsilon = s.epsilon
    /\ policy_net = s.policy_net
    /\ target_net = s.target_net
    /\ memory = s.memory
    /\ action_counts = s.action_counts
    /\ positive_feedback = s.positive_feedback
    /\ total_clicks = s.total_clicks
    /\ total_actions = s.total_actions
    /\ last_click_time = s.last_click_time
    /\ current_time = s.current_time
    /\ current_state = s.current_state
    /\ current_action_idx = s.current_action_idx
    /\ disk = s.disk
    /\ weights = None /\ exploration_rate = None

\* FoxyBrainDQN.__init__ with an empty save directory
FoxyBrainDQNInit == FoxyBrainDQNAt(FreshDQN)

\* stats.get(key, default) on the statistics read from stats.json
StatsGet(stats, key, default) ==
    IF stats # Nil /\ key \in DOMAIN stats[1] THEN JsonInt(stats[1][key])
    ELSE default

StatsGetMap(stats, key) ==
    IF stats # Nil /\ key \in DOMAIN stats[1]
    THEN [a \in DOMAIN stats[1][key] |-> JsonInt(stats[1][key][a])]
    ELSE Uniform(0)


\* main() run again, the replay memory surviving
FoxyBrainDQN_restart_KeepMemory ==
    /\ policy_net' = IF disk.model_pth = Nil THEN 0
                     ELSE disk.model_pth[1].policy_net
    /\ target_net' = IF disk.model_pth = Nil THEN 0
                     ELSE disk.model_pth[1].target_net
    /\ epsilon' = IF disk.model_pth = Nil THEN F_1_0
                  ELSE disk.model_pth[1].epsilon
    /\ memory' = memory
    /\ action_counts' = StatsGetMap(disk.stats_json, "action_counts")
    /\ positive_feedback' = StatsGetMap(disk.stats_json, "positive_feedback")
    /\ total_clicks' = StatsGet(disk.stats_json, "total_clicks", 0)
    /\ total_actions' = StatsGet(disk.stats_json, "total_actions", 0)
    /\ last_click_time' = StatsGet(disk.stats_json, "last_click_time", 0)
    /\ current_time' = StatsGet(disk.stats_json, "current_time", 0)
    /\ current_state' = Nil
    /\ current_action_idx' = Nil
    /\ last_call' = Call("__init__", None, FALSE, "load_brain", FZero, FALSE)
    /\ ncalls' = ncalls + 1
    /\ UNCHANGED <<weights, exploration_rate, disk>>
\* main() run again: FoxyBrainDQN.__init__ over the save directory.  The
\* networks and epsilon come from the checkpoint, which torch.save pickled
\* bit for bit, the counters from stats.json; the replay memory and the
\* current state start empty.
FoxyBrainDQN_restart ==
    /\ policy_net' = IF disk.model_pth = Nil THEN 0
                     ELSE disk.model_pth[1].policy_net
    /\ target_net' = IF disk.model_pth = Nil THEN 0
                     ELSE disk.model_pth[1].target_net
    /\ epsilon' = IF disk.model_pth = Nil THEN F_1_0
                  ELSE disk.model_pth[1].epsilon
    /\ memory' = <<>>
    /\ action_counts' = StatsGetMap(disk.stats_json, "action_counts")
    /\ positive_feedback' = StatsGetMap(disk.stats_json, "positive_feedback")
    /\ total_clicks' = StatsGet(disk.stats_json, "total_clicks", 0)
    /\ total_actions' = StatsGet(disk.stats_json, "total_actions", 0)
    /\ last_click_time' = StatsGet(disk.stats_json, "last_click_time", 0)
    /\ current_time' = StatsGet(disk.stats_json, "current_time", 0)
    /\ current_state' = Nil
    /\ current_action_idx' = Nil
    /\ last_call' = Call("__init__", None, FALSE, "load_brain", FZero, FALSE)
    /\ ncalls' = ncalls + 1
    /\ UNCHANGED <<weights, exploration_rate, disk>>

\* FoxyWidget.__init__
FoxyWidgetInit ==
    /\ current_frame = 0
    /\ user_clicked_during_action = FALSE
    /\ drag_position = None
    /\ current_action = "idle"
    /\ current_non_idle_action = None
    /\ action_duration \in IdleDraws

\* no widget: the brain is called directly
NoWidget ==
    /\ current_frame = 0
    /\ user_clicked_during_action = FALSE
    /\ drag_position = None
    /\ current_action = "idle"
    /\ current_non_idle_action = None
    /\ action_duration = 0

NoHistory ==
    /\ last_call = NoCall
    /\ ncalls = 0
    /\ ep_clicked = FALSE
    /\ idle_clicked = FALSE

\* ------------------------------------------------------------------------
\* the application: main() of either file, timer ticks and mouse events
\* ------------------------------------------------------------------------
Init ==
    /\ FoxyBrainInit(Nil) \/ FoxyBrainDQNInit
    /\ FoxyWidgetInit
    /\ NoHistory
    /\ scenario = <<>>

Next ==
    \/ TickRun
    \/ FinishIdle
    \/ FinishEpisode
    \/ MousePress
    \/ mouseReleaseEvent

Spec == Init /\ [][Next]_vars

\* ------------------------------------------------------------------------
\* the application with its timer ticks delivered: QTimer emits timeout as
\* long as the event loop runs, whatever mouse events arrive, so the slot
\* update_animation is taken again and again
\* ------------------------------------------------------------------------
\* bound on the episodes of a run
MaxLiveEpisodes == 1

LiveFinishIdle == FinishIdleWithin(2 * MaxLiveEpisodes)

\* a left click; the release of the button changes drag_position only
LivePress == mousePressEvent("left")

NextLive ==
    \/ TickRun
    \/ LiveFinishIdle
    \/ FinishEpisode
    \/ LivePress

\* the tick ending an episode is due
EpisodeDue == action_duration - 1 <= 0 /\ current_action # "idle"

\* weak fairness of each case of the slot; for FinishEpisode it is written
\* out, EpisodeDue being the condition under which the step is possible
SpecLive ==
    /\ Init
    /\ [][NextLive]_vars
    /\ WF_vars(TickRun)
    /\ WF_vars(LiveFinishIdle)
    /\ ([]<>(~EpisodeDue) \/ []<><<FinishEpisode>>_vars)

\* ------------------------------------------------------------------------
\* the brain API called directly, after earlier sessions
\* ------------------------------------------------------------------------
\* bound on the calls of a run
MaxCalls == 2

\* bound on the negative feedbacks an action received in earlier sessions
PriorNeg == 17

\* the weight n negative feedbacks leave of the weight w (the run is split
\* in halves, and w compared first, to keep the evaluation shallow)
RECURSIVE NegativeRun(_, _)
NegativeRun(n, w) ==
    IF n = 0 \/ w = Nil THEN w
    ELSE IF n = 1 THEN NegativeUpdate(w)
    ELSE NegativeRun(n - (n \div 2), NegativeRun(n \div 2, w))

\* the save file an earlier session left after k[a] negative feedbacks on a
PriorDoc(k) ==
    BrainData([a \in ActionSet |-> NegativeRun(k[a], F_1_0)], k, Uniform(0))

\* the negative feedbacks of the earlier sessions: none, PriorNeg on one
\* action, or PriorNeg on every action
PriorCounts ==
    {[a \in ActionSet |-> IF a \in low THEN PriorNeg ELSE 0] :
        low \in {{}, ActionSet} \cup {{a} : a \in ActionSet}}

\* arguments passed for action: the learnable actions and two others
ActionArgs == ActionSet \cup {"idle", "dance"}

InitBrain ==
    /\ \/ \E k \in PriorCounts : FoxyBrainInit(Some(PriorDoc(k)))
       \/ FoxyBrainDQNInit
    /\ NoWidget
    /\ NoHistory
    /\ scenario = <<>>

CallGiveFeedback ==
    /\ ncalls < MaxCalls
    /\ \E action \in ActionArgs, positive \in BOOLEAN : give_feedback(action, positive)
    /\ UNCHANGED <<brain, widgetVars, ep_clicked, idle_clicked, scenario>>

CallChooseAction ==
    /\ ncalls < MaxCalls
    /\ choose_action
    /\ UNCHANGED <<brain, widgetVars, ep_clicked, idle_clicked, scenario>>

NextBrain == CallGiveFeedback \/ CallChooseAction

SpecBrain == InitBrain /\ [][NextBrain]_vars

\* ------------------------------------------------------------------------
\* a scripted run: positive observations for one action, negative ones for
\* another, from the uniform prior
\* ------------------------------------------------------------------------
\* bound on the observations fed to each of the two actions
MaxObservations == 20

\* bound on the feedback given to the other actions
MaxOther == 1

InitScenario ==
    /\ FoxyBrainInit(Nil)
    /\ NoWidget
    /\ NoHistory
    /\ scenario \in {<<Actions[i], Actions[((i + 1) % action_size) + 1]>> :
                         i \in 1..action_size}

ObservePositive ==
    /\ positive_feedback[scenario[1]] < MaxObservations
    /\ FoxyBrain_give_feedback(scenario[1], TRUE)
    /\ UNCHANGED <<brain, widgetVars, ep_clicked, idle_clicked, scenario>>

ObserveNegative ==
    /\ action_counts[scenario[2]] < MaxObservations
    /\ FoxyBrain_give_feedback(scenario[2], FALSE)
    /\ UNCHANGED <<brain, widgetVars, ep_clicked, idle_clicked, scenario>>

Others == ActionSet \ {scenario[1], scenario[2]}

ObserveOther ==
    /\ CountSum(action_counts) - action_counts[scenario[1]]
           - action_counts[scenario[2]] < MaxOther
    /\ \E c \in Others, positive \in BOOLEAN : FoxyBrain_give_feedback(c, positive)
    /\ UNCHANGED <<brain, widgetVars, ep_clicked, idle_clicked, scenario>>

NextScenario == ObservePositive \/ ObserveNegative \/ ObserveOther

SpecScenario == InitScenario /\ [][NextScenario]_vars

\* ------------------------------------------------------------------------
\* sessions of the simple brain: the brain API called directly, the
\* process ended between two calls and started again over the save file
\* it left
\* ------------------------------------------------------------------------
\* bound on the operations (calls and restarts) of a run
MaxSessionOps == 3

\* main() run again: FoxyBrain.__init__ over the save file
FoxyBrain_restart(loaded) ==
    /\ weights' = loaded.weights
    /\ action_counts' = loaded.action_counts
    /\ positive_feedback' = loaded.positive_feedback
    /\ exploration_rate' = initial_exploration_rate
    /\ last_call' = Call("__init__", None, FALSE, "load_brain", FZero, FALSE)
    /\ ncalls' = ncalls + 1
    /\ UNCHANGED <<epsilon, policy_net, target_net, memory, total_clicks,
                   total_actions, last_click_time, current_time, current_state,
                   current_action_idx, disk>>

InitSessions ==
    /\ FoxyBrainInit(Nil)
    /\ NoWidget
    /\ NoHistory
    /\ scenario = <<>>

SessionGiveFeedback ==
    /\ ncalls < MaxSessionOps
    /\ \E action \in ActionArgs, positive \in BOOLEAN :
           FoxyBrain_give_feedback(action, positive)
    /\ UNCHANGED <<brain, widgetVars, ep_clicked, idle_clicked, scenario>>

SessionChooseAction ==
    /\ ncalls < MaxSessionOps
    /\ choose_action
    /\ UNCHANGED <<brain, widgetVars, ep_clicked, idle_clicked, scenario>>

SessionRestart ==
    /\ ncalls < MaxSessionOps
    /\ \E style \in ReprStyles :
           FoxyBrain_restart(load_brain(disk.foxy_brain_json, style))
    /\ UNCHANGED <<brain, widgetVars, ep_clicked, idle_clicked, scenario>>

NextSessions == SessionGiveFeedback \/ SessionChooseAction \/ SessionRestart

SpecSessions == InitSessions /\ [][NextSessions]_vars

\* ------------------------------------------------------------------------
\* startup of the simple brain over a save file it did not write, followed
\* by feedback
\* ------------------------------------------------------------------------
\* bound on the give_feedback calls after the startup
MaxStartupCalls == 2

\* the key sets of the maps found in the file: none, one action, all but
\* one, all
StartupKeys == {{}, {Actions[1]}, ActionSet \ {Actions[action_size]}, ActionSet}

\* the JSON objects found: each of the three keys absent, or bound to a
\* map of the prior's values over one of the key sets
StartupObjects ==
    {[k \in present |->
         IF k = "weights" THEN [a \in wk |-> F_1_0]
         ELSE IF k = "action_counts" THEN [a \in ck |-> 0]
         ELSE [a \in pk |-> 0]] :
       present \in SUBSET {"weights", "action_counts", "positive_feedback"},
       wk \in StartupKeys, ck \in StartupKeys, pk \in StartupKeys}

\* the save file at startup: missing, not JSON, JSON but no object, an
\* object
StartupFiles ==
    {Nil, Some(NotJson), Some(NotObject)} \cup {Some(o) : o \in StartupObjects}

\* the startup file is kept in scenario
InitStartup ==
    /\ \E doc \in StartupFiles : FoxyBrainInit(doc) /\ scenario = doc
    /\ NoWidget
    /\ NoHistory

StartupGiveFeedback ==
    /\ ncalls < MaxStartupCalls
    /\ \E action \in ActionArgs, positive \in BOOLEAN :
           FoxyBrain_give_feedback(action, positive)
    /\ UNCHANGED <<brain, widgetVars, ep_clicked, idle_clicked, scenario>>

NextStartup == StartupGiveFeedback

SpecStartup == InitStartup /\ [][NextStartup]_vars

\* ------------------------------------------------------------------------
\* the application of foxy_main.py over a disk whose writes may fail
\* ------------------------------------------------------------------------
\* what the Qt binding does with an exception that leaves the slot
\* update_animation: PyQt5 from 5.5 on ends the process (qFatal), earlier
\* versions print the traceback and return to the event loop
SlotExceptionPolicies == {"abort", "continue"}

\* scenario holds the policy of the binding, followed by "aborted" once the
\* process was ended
Running == Len(scenario) = 1

InitFaulty ==
    /\ FoxyBrainInit(Nil)
    /\ FoxyWidgetInit
    /\ NoHistory
    /\ \E policy \in SlotExceptionPolicies : scenario = <<policy>>

FaultyTickRun == Running /\ TickRun

FaultyFinishIdle == Running /\ FinishIdle

\* update_animation, the countdown expired in an action: finish_action
\* reports the episode; when save_brain raises, the exception leaves
\* give_feedback, finish_action and update_animation before start_action
\* is reached
FaultyFinishEpisode ==
    /\ Running
    /\ action_duration - 1 <= 0
    /\ current_action # "idle"
    /\ current_non_idle_action # None
    /\ ncalls < 2 * MaxEpisodes
    /\ \E save \in SaveOutcomes :
           FoxyBrain_feedback(current_non_idle_action, user_clicked_during_action,
                              save)
    /\ IF last_call'.branch = "OSError"
       THEN /\ current_frame' = (current_frame + 1) % frames_per_loop
            /\ action_duration' = action_duration - 1
            /\ scenario' = IF scenario[1] = "abort"
                           THEN Append(scenario, "aborted") ELSE scenario
            /\ UNCHANGED <<current_action, user_clicked_during_action,
                           current_non_idle_action, idle_clicked>>
       ELSE /\ \E idle_draw \in IdleDraws : start_action("idle", idle_draw)
            /\ idle_clicked' = FALSE
            /\ UNCHANGED scenario
    /\ UNCHANGED <<brain, drag_position, ep_clicked>>

FaultyMousePress == Running /\ MousePress

FaultyMouseRelease == Running /\ mouseReleaseEvent

NextFaulty ==
    \/ FaultyTickRun
    \/ FaultyFinishIdle
    \/ FaultyFinishEpisode
    \/ FaultyMousePress
    \/ FaultyMouseRelease

SpecFaulty == InitFaulty /\ [][NextFaulty]_vars

\* ------------------------------------------------------------------------
\* long runs of the learned brain: choose_action and give_feedback
\* alternate as the widget calls them, the draws following a fixed script;
\* one run is a single session, the other may be restarted
\* ------------------------------------------------------------------------
\* bound on the actions of the single session
MaxSteadyActions == 2003

\* the actions of the single session made before the run is observed
SteadyStart == memory_capacity - 2

\* bound on the actions of the run with restarts
MaxRestartedActions == 160

\* bound on the restarts of a run
MaxRestarts == 2

\* the values of total_actions at which a restart may occur
RestartPoints == {0, 90, 150}

\* the index chosen at the action following n actions, and the feedback
\* given to the n-th action
ScriptIdx(n) == n % action_size

ScriptPositive(n) == n % 3 = 0

\* one episode of the script: choose_action, then give_feedback on the
\* action chosen
ScriptRound(s) ==
    Updated(Chosen(s, ScriptIdx(s.total_actions)),
            Actions[ScriptIdx(s.total_actions) + 1],
            ScriptPositive(s.total_actions + 1))

\* n episodes of the script (the run is split in halves, and s looked at
\* first, to keep the evaluation shallow)
RECURSIVE ScriptRounds(_, _)
ScriptRounds(n, s) ==
    IF n = 0 \/ s.total_actions < 0 THEN s
    ELSE IF n = 1 THEN ScriptRound(s)
    ELSE ScriptRounds(n - (n \div 2), ScriptRounds(n \div 2, s))

\* scenario holds the kind of the run and the restarts it made; the single
\* session is observed from its SteadyStart-th episode on
InitLongRun ==
    /\ \/ /\ scenario = <<"steady", 0>>
          /\ FoxyBrainDQNAt(ScriptRounds(SteadyStart, FreshDQN))
       \/ /\ scenario = <<"restarted", 0>>
          /\ FoxyBrainDQNInit
    /\ NoWidget
    /\ NoHistory

LongChoose ==
    /\ last_call.op # "choose_action"
    /\ total_actions < (IF scenario[1] = "steady" THEN MaxSteadyActions
                                                  ELSE MaxRestartedActions)
    /\ FoxyBrainDQN_choose_action(F_0_5, ScriptIdx(total_actions))
    /\ UNCHANGED <<brain, widgetVars, ep_clicked, idle_clicked, scenario>>

LongFeedback ==
    /\ last_call.op = "choose_action"
    /\ FoxyBrainDQN_give_feedback(last_call.action, ScriptPositive(total_actions))
    /\ UNCHANGED <<brain, widgetVars, ep_clicked, idle_clicked, scenario>>

\* the process is ended, between two episodes or during one, and started
\* again
LongRestart ==
    /\ scenario[1] = "restarted"
    /\ scenario[2] < MaxRestarts
    /\ total_actions \in RestartPoints
    /\ FoxyBrainDQN_restart
    /\ scenario' = <<scenario[1], scenario[2] + 1>>
    /\ UNCHANGED <<brain, widgetVars, ep_clicked, idle_clicked>>

NextLongRun == LongChoose \/ LongFeedback \/ LongRestart

SpecLongRun == InitLongRun /\ [][NextLongRun]_vars

\* ------------------------------------------------------------------------
\* the application with its timer ticks counted: scenario holds the ticks
\* delivered since the last start_action
\* ------------------------------------------------------------------------
InitTimed ==
    /\ FoxyBrainInit(Nil) \/ FoxyBrainDQNInit
    /\ FoxyWidgetInit
    /\ NoHistory
    /\ scenario = <<0>>

\* a tick that advances the animation frame and leaves the countdown alone
TimedTickRun_FrameOnly ==
    /\ action_duration - 1 > 0
    /\ current_frame' = (current_frame + 1) % frames_per_loop
    /\ scenario' = <<scenario[1] + 1>>
    /\ UNCHANGED <<brain, brainVars, current_action, action_duration,
                   user_clicked_during_action, current_non_idle_action,
                   drag_position, last_call, ncalls, ep_clicked, idle_clicked>>

\* update_animation while the countdown has not expired
TimedTickRun ==
    /\ action_duration - 1 > 0
    /\ current_frame' = (current_frame + 1) % frames_per_loop
    /\ action_duration' = action_duration - 1
    /\ scenario' = <<scenario[1] + 1>>
    /\ UNCHANGED <<brain, brainVars, current_action, user_clicked_during_action,
                   current_non_idle_action, drag_position, last_call, ncalls,
                   ep_clicked, idle_clicked>>

\* update_animation, the countdown expiring in idle
TimedFinishIdle ==
    /\ action_duration - 1 <= 0
    /\ current_non_idle_action = None
    /\ current_action = "idle"
    /\ ncalls < 2 * MaxEpisodes
    /\ choose_action
    /\ IF last_call'.branch = "raise"
       THEN /\ current_frame' = (current_frame + 1) % frames_per_loop
            /\ action_duration' = action_duration - 1
            /\ scenario' = <<scenario[1] + 1>>
            /\ UNCHANGED <<current_action, user_clicked_during_action,
                           current_non_idle_action>>
       ELSE /\ start_action(last_call'.action, min_idle_duration)
            /\ scenario' = <<0>>
    /\ ep_clicked' = FALSE
    /\ UNCHANGED <<brain, drag_position, idle_clicked>>

\* update_animation, the countdown expiring in an action
TimedFinishEpisode ==
    /\ action_duration - 1 <= 0
    /\ current_action # "idle"
    /\ IF current_non_idle_action # None
       THEN give_feedback(current_non_idle_action, user_clicked_during_action)
       ELSE UNCHANGED <<brainVars, last_call, ncalls>>
    /\ \E idle_draw \in IdleDraws : start_action("idle", idle_draw)
    /\ scenario' = <<0>>
    /\ idle_clicked' = FALSE
    /\ UNCHANGED <<brain, drag_position, ep_clicked>>

NextTimed ==
    \/ TimedTickRun
    \/ TimedFinishIdle
    \/ TimedFinishEpisode
    \/ MousePress
    \/ mouseReleaseEvent

SpecTimed == InitTimed /\ [][NextTimed]_vars

\* ------------------------------------------------------------------------
\* the simple brain in exact arithmetic, beside the brain as it runs: the
\* weights are counted in twentieths, which every update keeps whole
\* ------------------------------------------------------------------------
\* bound on the calls of a run
MaxExactCalls == 2

\* 1.0, 0.15, 0.05 and 0.1 in twentieths
exact_initial_weight == 20

exact_learning_rate_positive == 3

exact_learning_rate_negative == 1

exact_weight_floor == 2

ExactPositiveUpdate(k) == k + exact_learning_rate_positive

ExactNegativeUpdate(k) == Max(exact_weight_floor, k - exact_learning_rate_negative)

\* the weight n negative feedbacks leave of the initial weight
RECURSIVE ExactNegativeRun(_)
ExactNegativeRun(n) ==
    IF n = 0 THEN exact_initial_weight
    ELSE ExactNegativeUpdate(ExactNegativeRun(n - 1))

\* total_weight = sum(self.weights.values())
ExactTotal(ew) ==
    ew[Actions[1]] + ew[Actions[2]] + ew[Actions[3]] + ew[Actions[4]]

\* the numerators before each iteration of the selection loop
ExactCumulative_Before(ew) ==
    <<0,
      ew[Actions[1]],
      ew[Actions[1]] + ew[Actions[2]],
      ew[Actions[1]] + ew[Actions[2]] + ew[Actions[3]]>>

\* the value of cumulative after each iteration of the selection loop, as
\* numerators over the denominator ExactTotal(ew)
ExactCumulative(ew) ==
    <<ew[Actions[1]],
      ew[Actions[1]] + ew[Actions[2]],
      ew[Actions[1]] + ew[Actions[2]] + ew[Actions[3]],
      ew[Actions[1]] + ew[Actions[2]] + ew[Actions[3]] + ew[Actions[4]]>>

\* the carry out of limb i in a + b
RECURSIVE BAddCarry(_, _, _)
BAddCarry(a, b, i) ==
    IF i = 0 THEN 0 ELSE (a[i] + b[i] + BAddCarry(a, b, i - 1)) \div B27

BAdd(a, b) == [i \in Limbs |-> (a[i] + b[i] + BAddCarry(a, b, i - 1)) % B27]

\* b * n for any natural n
RECURSIVE BTimes(_, _)
BTimes(b, n) ==
    IF n < 16 THEN BMulAdd(b, n, 0)
    ELSE BAdd(BShl(BTimes(b, n \div 16), 4), BMulAdd(b, n % 16, 0))

\* rand_val * den, the double rand_val < 1 taken at its exact value
\* m * 2^e, as the wide integer m * den
ExactScaled(rand_val, den) == BTimes(BFromW(FMant(rand_val)), den)

\* scaled / 2^-e <= num
ExactReached(scaled, e, num) == ~BLt(BShl(BFromW(<<0, num>>), 0 - e), scaled)

\* rand_val <= num / den
ExactLe(rand_val, num, den) ==
    ExactReached(ExactScaled(rand_val, den), rand_val[4], num)

\* the selection loop: the first action with rand_val <= cumulative, or
\* None when the loop ends without returning
ExactScan(cum, total, rand_val) ==
    LET scaled == ExactScaled(rand_val, total)
        hits == {i \in 1..action_size : ExactReached(scaled, rand_val[4], cum[i])}
    IN  IF hits = {} THEN None
        ELSE Actions[CHOOSE i \in hits : \A j \in hits : i <= j]

\* the negative feedbacks of the earlier sessions: none, PriorNeg on every
\* action, or enough on all actions but the first to leave them at the floor
ExactPriorCounts ==
    {Uniform(0), Uniform(PriorNeg),
     [a \in ActionSet |-> IF a = Actions[1] THEN 0 ELSE PriorNeg + 1]}

\* scenario = <<the exact weights, what the exact selection loop returned
\* in the last choose_action>>
InitExact ==
    /\ \E k \in ExactPriorCounts :
           /\ FoxyBrainInit(Some(PriorDoc(k)))
           /\ scenario = <<[a \in ActionSet |-> ExactNegativeRun(k[a])], Nil>>
    /\ NoWidget
    /\ NoHistory

ExactGiveFeedback ==
    /\ ncalls < MaxExactCalls
    /\ \E action \in ActionSet, positive \in BOOLEAN :
           /\ FoxyBrain_give_feedback(action, positive)
           /\ scenario' =
                  <<[scenario[1] EXCEPT ![action] =
                        IF positive THEN ExactPositiveUpdate(@)
                                    ELSE ExactNegativeUpdate(@)], Nil>>
    /\ UNCHANGED <<brain, widgetVars, ep_clicked, idle_clicked>>

ExactChooseAction ==
    /\ ncalls < MaxExactCalls
    /\ \E compensated \in BOOLEAN :
           LET cum == Thresholds(weights, compensated)
           IN  \E u \in {FZero, F_MaxDraw}, rand_val \in RandDraws, pick \in Choices :
                   FoxyBrain_choose_action(cum, u, rand_val, pick, compensated)
    /\ scenario' =
           <<scenario[1],
             IF last_call'.branch = "explore" THEN Nil
             ELSE Some(ExactScan(ExactCumulative(scenario[1]),
                                 ExactTotal(scenario[1]), last_call'.rand_val))>>
    /\ UNCHANGED <<brain, widgetVars, ep_clicked, idle_clicked>>

NextExact == ExactGiveFeedback \/ ExactChooseAction

SpecExact == InitExact /\ [][NextExact]_vars

\* ------------------------------------------------------------------------
\* the brain API called directly, after sessions that left heavy weights
\* ------------------------------------------------------------------------
\* 2^40
F_Heavy == <<1, 33554432, 0, -12>>

\* 2^51 - 0.25, which one more positive feedback rounds up to 2^51, where
\* weight + 0.15 rounds back to weight; every weight that positive feedback
\* keeps raising passes here, the updates between 2^50 and 2^51 each adding
\* 0.25
F_NearSaturated == <<1, 67108863, 134217727, -2>>

\* the weights left by the earlier sessions: all 1.0, or the first or the
\* last action heavy and the others at the floor
HeavyWeights ==
    {Uniform(F_1_0)} \cup
    {[a \in ActionSet |-> IF a = heavy THEN w ELSE weight_floor] :
        heavy \in {Actions[1], Actions[action_size]},
        w \in {F_Heavy, F_NearSaturated}}

\* the number of feedbacks behind a heavy weight exceeds the integers kept
\* here: the counts are those of the feedbacks given since
InitHeavy ==
    /\ \E w \in HeavyWeights :
           FoxyBrainInit(Some(BrainData(w, Uniform(0), Uniform(0))))
    /\ NoWidget
    /\ NoHistory
    /\ scenario = <<>>

SpecHeavy == InitHeavy /\ [][NextBrain]_vars

\* ------------------------------------------------------------------------
\* the application of foxy_mainDQN.py ended and started again: main()
\* constructs the brain over the save directory and a new widget
\* ------------------------------------------------------------------------
\* bound on the episodes of a run
MaxRelaunchEpisodes == 1

\* bound on the restarts of a run
MaxRelaunches == 1

\* the episodes of the session that left the save directory: none, or
\* enough for the networks to have been trained
PriorEpisodes == {0, batch_size + 8}

\* the fields FoxyBrainDQN.__init__ sets over the save directory s.disk
Loaded(s) ==
    [FreshDQN EXCEPT
        !.disk = s.disk,
        !.policy_net = IF s.disk.model_pth = Nil THEN @
                       ELSE s.disk.model_pth[1].policy_net,
        !.target_net = IF s.disk.model_pth = Nil THEN @
                       ELSE s.disk.model_pth[1].target_net,
        !.epsilon = IF s.disk.model_pth = Nil THEN @
                    ELSE s.disk.model_pth[1].epsilon,
        !.action_counts = StatsGetMap(s.disk.stats_json, "action_counts"),
        !.positive_feedback = StatsGetMap(s.disk.stats_json, "positive_feedback"),
        !.total_clicks = StatsGet(s.disk.stats_json, "total_clicks", 0),
        !.total_actions = StatsGet(s.disk.stats_json, "total_actions", 0),
        !.last_click_time = StatsGet(s.disk.stats_json, "last_click_time", 0),
        !.current_time = StatsGet(s.disk.stats_json, "current_time", 0)]

InitRelaunch ==
    /\ \E n \in PriorEpisodes :
           FoxyBrainDQNAt(Loaded(ScriptRounds(n, FreshDQN)))
    /\ FoxyWidgetInit
    /\ NoHistory
    /\ scenario = <<0>>

RelaunchFinishIdle == FinishIdleWithin(2 * MaxRelaunchEpisodes)

\* the process is ended, in idle or during an episode, mouse button held or
\* not, and main() run again; the moments followed are those at which an
\* animation loop begins, what a restart does being the same at every frame;
\* scenario counts the restarts
Relaunch ==
    /\ scenario[1] < MaxRelaunches
    /\ current_frame = 0
    /\ FoxyBrainDQN_restart
    /\ \E idle_draw \in IdleDraws : start_action("idle", idle_draw)
    /\ drag_position' = None
    /\ ep_clicked' = FALSE
    /\ idle_clicked' = FALSE
    /\ scenario' = <<scenario[1] + 1>>
    /\ UNCHANGED brain

NextRelaunch ==
    \/ TickRun
    \/ RelaunchFinishIdle
    \/ FinishEpisode
    \/ LivePress
    \/ Relaunch

SpecRelaunch == InitRelaunch /\ [][NextRelaunch]_vars

\* ------------------------------------------------------------------------
\* VirtualPet of main.py: a second widget, with no brain.  Its fields are
\* held as one record in the variable scenario; the positions on the screen
\* (the pet's, the cursor's, the target's) are inputs of the handlers and
\* are represented by what the handlers decide from them.
\* ------------------------------------------------------------------------

\* PetConfig.FRAMES_PER_ANIMATION: every animation is filled up to this
\* many frames when it is loaded
FRAMES_PER_ANIMATION == 24

\* the keys of PetConfig.ANIMATION_STATES, in the order of the dict
ANIMATION_STATES == <<"idle", "walk", "sleep", "eat", "excited", "drag", "run">>

F_0_3 == <<1, 40265318, 53687091, -54>>

\* PetConfig.ANIMATION_STATES[s]['weight']
ANIMATION_weight(s) ==
    CASE s = "idle"    -> F_0_3
      [] s = "walk"    -> F_0_5
      [] s = "sleep"   -> F_0_1
      [] s = "eat"     -> F_0_1
      [] s = "excited" -> FZero
      [] s = "drag"    -> FZero
      [] s = "run"     -> FZero

\* PetConfig.ANIMATION_STATES[s]['loop']
ANIMATION_loop(s) == s \notin {"eat", "excited"}

\* the bounds of the clicks counted and of the single shots pending at once
MaxClickCount == 3
MaxPending == 2

\* VirtualPet.__init__
VirtualPetInit ==
    [state |-> "idle", current_frame |-> 0, is_moving |-> FALSE,
     target_pos |-> None, drag_start_pos |-> None, click_count |-> 0,
     pending |-> 0, event |-> "__init__"]

\* setup_movement_state: a target is drawn when there is none
setup_movement_state(p) ==
    [p EXCEPT !.target_pos = IF @ = None THEN "point" ELSE @,
              !.is_moving = TRUE]

\* cleanup_movement_state
cleanup_movement_state(p) ==
    [p EXCEPT !.is_moving = FALSE, !.target_pos = None]

\* change_state(new_state), force left at its default by every caller
change_state(p, new_state) ==
    IF new_state = p.state
    THEN p
    ELSE LET q == [p EXCEPT !.state = new_state, !.current_frame = 0]
         IN IF new_state \in {"walk", "run"}
            THEN setup_movement_state(q)
            ELSE cleanup_movement_state(q)

\* move_toward_target: stopped is the outcome of the two tests on the
\* positions (closer than one step to the target, or held by the boundary)
move_toward_target(p, stopped) ==
    IF p.target_pos = None
    THEN p
    ELSE IF stopped THEN change_state(p, "idle") ELSE p

\* update_animation, the callback of animation_timer
update_animation(p, stopped) ==
    LET q == IF ANIMATION_loop(p.state)
                \/ p.current_frame < FRAMES_PER_ANIMATION - 1
             THEN [p EXCEPT !.current_frame =
                                (@ + 1) % FRAMES_PER_ANIMATION]
             ELSE change_state(p, "idle")
    IN IF q.state \in {"walk", "run"} /\ q.is_moving
       THEN move_toward_target(q, stopped)
       ELSE q

\* the states update_behavior chooses among, and their running sums as
\* itertools.accumulate adds them
available_states ==
    SelectSeq(ANIMATION_STATES, LAMBDA s : s \notin {"excited", "drag"})

RECURSIVE accumulate(_, _)
accumulate(w, n) ==
    IF n = 1 THEN <<w[1]>>
    ELSE LET c == accumulate(w, n - 1) IN Append(c, FAdd(c[n - 1], w[n]))

cum_weights ==
    accumulate([i \in 1..Len(available_states) |->
                    ANIMATION_weight(available_states[i])],
               Len(available_states))

\* bisect.bisect(a, x, lo, hi), indices counted from 0 as in the library
RECURSIVE bisect(_, _, _, _)
bisect(a, x, lo, hi) ==
    IF lo < hi
    THEN LET mid == (lo + hi) \div 2
         IN IF FLt(x, a[mid + 1]) THEN bisect(a, x, lo, mid)
                                  ELSE bisect(a, x, mid + 1, hi)
    ELSE lo

\* random.choices(available_states, weights=weights, k=1)[0] when random()
\* returns draw
choices(draw) ==
    LET total == FAdd(cum_weights[Len(cum_weights)], FZero)
    IN available_states[bisect(cum_weights, FMul(draw, total), 0,
                               Len(available_states) - 1) + 1]

\* update_behavior, the callback of ai_timer, that interrupts every state
update_behavior_Unguarded(p, chance, draw) ==
    IF FLt(chance, F_0_3) THEN change_state(p, choices(draw)) ELSE p

\* update_behavior, the callback of ai_timer
update_behavior(p, chance, draw) ==
    IF p.state \in {"eat", "excited", "drag"}
    THEN p
    ELSE IF FLt(chance, F_0_3) THEN change_state(p, choices(draw)) ELSE p

\* VirtualPet.mousePressEvent; quick tells that less than
\* DOUBLE_CLICK_THRESHOLD passed since the last click
VirtualPet_mousePressEvent(p, button, quick) ==
    IF button # "left"
    THEN p
    ELSE LET q == [p EXCEPT !.drag_start_pos = "offset"]
         IN IF quick
            THEN LET r == [q EXCEPT !.click_count = @ + 1]
                 IN IF r.click_count >= 2
                    THEN [change_state(r, "excited") EXCEPT !.pending = @ + 1]
                    ELSE r
            ELSE [q EXCEPT !.click_count = 1]

\* VirtualPet.mouseMoveEvent
VirtualPet_mouseMoveEvent(p) ==
    IF p.drag_start_pos # None
    THEN IF p.state # "drag" THEN change_state(p, "drag") ELSE p
    ELSE p

\* VirtualPet.mouseReleaseEvent
VirtualPet_mouseReleaseEvent(p, button) ==
    IF button # "left"
    THEN p
    ELSE LET q == [p EXCEPT !.drag_start_pos = None]
         IN IF q.state = "drag" THEN change_state(q, "idle") ELSE q

\* jump_to_cursor, the slot of the single shot a double click starts
jump_to_cursor(p) ==
    change_state([p EXCEPT !.target_pos = "point", !.is_moving = TRUE], "run")

\* the values random.random() takes in update_behavior
ChanceDraws == {FZero, F_0_25, F_0_3, F_0_5, F_MaxDraw}
ChoiceDraws == RandDraws \cup {cum_weights[i] : i \in 1..3}

Buttons == {"left", "right"}

\* main.py constructs no brain and no FoxyWidget
NoBrain ==
    /\ brain = None
    /\ weights = None /\ action_counts = None /\ positive_feedback = None
    /\ exploration_rate = None /\ epsilon = None
    /\ policy_net = None /\ target_net = None
    /\ memory = None /\ total_clicks = None /\ total_actions = None
    /\ last_click_time = None /\ current_time = None
    /\ current_state = Nil /\ current_action_idx = Nil
    /\ disk = NoFiles

InitPet ==
    /\ NoBrain
    /\ NoWidget
    /\ NoHistory
    /\ scenario = VirtualPetInit

PetHandled(p, name) ==
    /\ scenario' = [p EXCEPT !.event = name]
    /\ UNCHANGED <<brain, brainVars, widgetVars, last_call, ncalls,
                   ep_clicked, idle_clicked>>

AnimationTimer ==
    \E stopped \in BOOLEAN :
        PetHandled(update_animation(scenario, stopped), "update_animation")

BehaviorTimer ==
    \E chance \in ChanceDraws, draw \in ChoiceDraws :
        PetHandled(update_behavior(scenario, chance, draw), "update_behavior")

SingleShot ==
    /\ scenario.pending > 0
    /\ PetHandled([jump_to_cursor(scenario) EXCEPT !.pending = @ - 1],
                  "jump_to_cursor")

\* a button goes down only when it is up; the second press of a double
\* click arrives through the default mouseDoubleClickEvent
PetPress ==
    \E button \in Buttons, quick \in BOOLEAN :
        /\ button = "left" => scenario.drag_start_pos = None
        /\ quick => scenario.click_count < MaxClickCount
        /\ quick /\ scenario.click_count >= 1 => scenario.pending < MaxPending
        /\ PetHandled(VirtualPet_mousePressEvent(scenario, button, quick),
                      "mousePressEvent")

PetMove ==
    PetHandled(VirtualPet_mouseMoveEvent(scenario), "mouseMoveEvent")

PetRelease ==
    \E button \in Buttons :
        /\ button = "left" => scenario.drag_start_pos # None
        /\ PetHandled(VirtualPet_mouseReleaseEvent(scenario, button),
                      "mouseReleaseEvent")

NextPet ==
    \/ AnimationTimer
    \/ BehaviorTimer
    \/ SingleShot
    \/ PetPress
    \/ PetMove
    \/ PetRelease

SpecPet == InitPet /\ [][NextPet]_vars

\* ------------------------------------------------------------------------
\* properties of FoxyBrain.give_feedback
\* ------------------------------------------------------------------------
\* a step that is a give_feedback call on the simple brain updating an action
FeedbackStep(positive) ==
    /\ brain = "FoxyBrain"
    /\ ncalls' = ncalls + 1
    /\ last_call'.op = "give_feedback"
    /\ last_call'.branch = "updated"
    /\ last_call'.positive = positive

\* C1: in the simple brain every learnable action's weight is at least the
\* floor 0.1 after any sequence of give_feedback calls.
C1_WeightFloor ==
    brain = "FoxyBrain" => \A a \in ActionSet : FLe(weight_floor, weights[a])

\* a negative feedback has just been clamped: the action stood at
\* 0.1499999999999997 after PriorNeg negatives and now stands at the floor
C1_Witness ==
    /\ brain = "FoxyBrain"
    /\ last_call.op = "give_feedback"
    /\ last_call.branch = "updated"
    /\ ~last_call.positive
    /\ action_counts[last_call.action] = PriorNeg + 1
    /\ positive_feedback[last_call.action] = 0
    /\ weights[last_call.action] = weight_floor

F_TenPositives == <<1, 41943039, 134217726, -51>>

\* 0.4999999999999996 (0x1.ffffffffffff9p-2)
F_TenNegatives == <<1, 67108863, 134217721, -54>>

\* x * 2^-52 (2^-52 is the spacing of the floats in [1, 2))
Eps(x) == IF x[1] = 0 THEN x ELSE <<x[1], x[2], x[3], x[4] - 52>>

\* 1.0 + 0.15 * p as the interpreter evaluates it
ExpectedPositive(p) == FAdd(F_1_0, FMul(F_0_15, IntToF(p)))

\* max(0.1, 1.0 - 0.05 * n) as the interpreter evaluates it
ExpectedNegative(n) == FMax(F_0_1, FSub(F_1_0, FMul(F_0_05, IntToF(n))))

\* |x - y| <= tol
Close(x, y, tol) == FLe(FAbs(FSub(x, y)), tol)

\* the closed forms for each number of observations of a run
ClosedForms ==
    [k \in 0..MaxObservations |->
        [positive |-> ExpectedPositive(k), negative |-> ExpectedNegative(k)]]

\* C3 as stated: after p positive observations for a and n negative ones
\* for b, weight[a] = 1.0 + 0.15 * p and weight[b] = max(0.1, 1.0 - 0.05 * n).
C3_Original ==
    /\ weights[scenario[1]] = ClosedForms[positive_feedback[scenario[1]]].positive
    /\ weights[scenario[2]] = ClosedForms[action_counts[scenario[2]]].negative

\* the weights of a after p positives and of b after n negatives
AccumulatedWeights(wa, p, ea, wb, n, eb) ==
    /\ Close(wa, ea, Eps(FMul(IntToF(p), ea)))
    /\ Close(wb, eb, Eps(FMul(IntToF(n), F_0_5)))
    /\ p = 10 => wa = F_TenPositives
    /\ n = 10 => wb = F_TenNegatives
    /\ n >= 18 => wb = F_0_1

\* C3: after p positive observations for a and n negative ones for b,
\* weight[a] is within p * (1.0 + 0.15 * p) * 2^-52 of 1.0 + 0.15 * p and
\* weight[b] within n * 2^-53 of max(0.1, 1.0 - 0.05 * n); p = n = 10 gives
\* 2.499999999999999 and 0.4999999999999996, and n >= 18 gives 0.1.
C3_Accumulated ==
    AccumulatedWeights(weights[scenario[1]], positive_feedback[scenario[1]],
                       ClosedForms[positive_feedback[scenario[1]]].positive,
                       weights[scenario[2]], action_counts[scenario[2]],
                       ClosedForms[action_counts[scenario[2]]].negative)

\* ten positive observations for a and ten negative ones for b
C3_Witness ==
    /\ positive_feedback[scenario[1]] = 10
    /\ action_counts[scenario[2]] = 10
    /\ weights[scenario[1]] # ExpectedPositive(10)
    /\ weights[scenario[2]] # ExpectedNegative(10)

\* the shares choose_action computes from weights w
Shares(w, compensated) == Probabilities(w, TotalWeight(w, compensated))

\* the share of a went up and no other share did
ShareShift(a, before, after) ==
    /\ FLt(before[a], after[a])
    /\ \A b \in ActionSet \ {a} : FLe(after[b], before[b])

C5_UnknownIgnored ==
    [][(/\ ncalls' = ncalls + 1
        /\ last_call'.op = "give_feedback"
        /\ last_call'.action \notin ActionSet)
       => /\ last_call'.branch = "ignored"
          /\ UNCHANGED <<brain, brainVars>>]_vars

\* the neural brain has saved its files and is then given feedback for idle
C5_Witness ==
    /\ brain = "FoxyBrainDQN"
    /\ disk.stats_json # Nil
    /\ last_call.op = "give_feedback"
    /\ last_call.action = "idle"
    /\ last_call.branch = "ignored"

\* ------------------------------------------------------------------------
\* properties of choose_action
\* ------------------------------------------------------------------------
\* C6: in both brains choose_action returns without error an action of
\* {excited, relax, sleep, walk}, never the idle action; in the simple brain
\* the sum of the weights is positive.
C6_ChoosesLearnable ==
    /\ last_call.op = "choose_action" =>
           /\ last_call.branch # "raise"
           /\ last_call.action \in {"excited", "relax", "sleep", "walk"}
           /\ last_call.action # "idle"
    /\ brain = "FoxyBrain" =>
           \A compensated \in BOOLEAN :
               FLt(FZero, TotalWeight(weights, compensated))

\* exploitation has chosen among four actions that each received PriorNeg
\* negative feedbacks
C6_Witness ==
    /\ brain = "FoxyBrain"
    /\ last_call.op = "choose_action"
    /\ last_call.branch = "exploit"
    /\ \A a \in ActionSet : action_counts[a] = PriorNeg

\* the last call was choose_action of the simple brain and it did not explore
Exploited ==
    /\ brain = "FoxyBrain"
    /\ last_call.op = "choose_action"
    /\ last_call.branch \in {"exploit", "fallback"}

\* action is the first one, in the order of Actions, whose threshold is at
\* least rand_val
FirstReaching(action, cum, rand_val) ==
    \E i \in 1..action_size :
        /\ Actions[i] = action
        /\ FLe(rand_val, cum[i])
        /\ \A j \in 1..(i - 1) : ~FLe(rand_val, cum[j])

\* C7 as stated: exploitation always returns the first action in the order
\* excited, relax, sleep, walk whose cumulative normalized weight is >= r.
C7_Original ==
    Exploited =>
        FirstReaching(last_call.action,
                      Thresholds(weights, last_call.compensated),
                      last_call.rand_val)

\* what exploitation returns, given the thresholds cum
ExploitOutcome(cum) ==
    /\ last_call.branch = "exploit" =>
           FirstReaching(last_call.action, cum, last_call.rand_val)
    /\ last_call.branch = "fallback" =>
           /\ \A i \in 1..action_size : FLt(cum[i], last_call.rand_val)
           /\ last_call.action \in ActionSet
    /\ (weights = Uniform(F_1_0) /\ last_call.rand_val = F_0_999) =>
           last_call.action = "walk"

\* C7: exploitation returns the first action in the order excited, relax,
\* sleep, walk whose floating-point cumulative share is >= r when there is
\* one, and a random learnable action when the cumulative share ends below
\* r; with all weights 1.0 and r = 0.999 it returns walk.
C7_FirstOrFallback ==
    Exploited => ExploitOutcome(Thresholds(weights, last_call.compensated))

\* the cumulative share ended below the draw and the action returned is not
\* the last one
C7_Witness ==
    /\ Exploited
    /\ last_call.branch = "fallback"
    /\ last_call.action # "walk"

\* ------------------------------------------------------------------------
\* properties of the widget's episodes
\* ------------------------------------------------------------------------
\* a step in which finish_action calls choose_action
EpisodeStart == ncalls' = ncalls + 1 /\ last_call'.op = "choose_action"

\* a step in which finish_action calls give_feedback
FeedbackEmitted == ncalls' = ncalls + 1 /\ last_call'.op = "give_feedback"

\* the brain is called only when the machine changes state, and the machine
\* changes state only with its call
EpisodeStep ==
    /\ ncalls' # ncalls => ncalls' = ncalls + 1
    /\ current_action' # current_action => ncalls' = ncalls + 1
    /\ EpisodeStart =>
           /\ current_action = "idle"
           /\ current_action' # "idle"
           /\ current_action' = last_call'.action
           /\ last_call.op \in {None, "give_feedback"}
    /\ FeedbackEmitted =>
           /\ current_action # "idle"
           /\ current_action' = "idle"
           /\ last_call.op = "choose_action"
           /\ last_call'.action = last_call.action
           /\ last_call'.action = current_action

\* C8: the widget starts idle; choose_action is called only on leaving
\* idle for the action it returns, give_feedback only on returning to idle,
\* once per episode and with the action of the latest choose_action, so the
\* brain calls alternate choose, feedback, choose, ... starting with choose.
C8_EpisodeMachine ==
    /\ current_action = "idle" /\ ncalls = 0 /\ last_call.op = None
    /\ [][EpisodeStep]_vars

\* MaxEpisodes episodes have run and the widget is idle again
C8_Witness ==
    /\ ncalls = 2 * MaxEpisodes
    /\ last_call.op = "give_feedback"
    /\ last_call.branch = "updated"
    /\ current_action = "idle"

\* C9: the feedback at the end of an episode is positive exactly when a left
\* click occurred during the episode; once set the flag stays set until the
\* episode ends whatever is clicked, and it is false when an episode starts.
C9_ClickedIff ==
    [][/\ FeedbackEmitted => (last_call'.positive <=> ep_clicked)
       /\ EpisodeStart => ~user_clicked_during_action'
       /\ (user_clicked_during_action /\ ncalls' = ncalls) =>
              (user_clicked_during_action' /\ UNCHANGED brainVars)]_vars

\* an episode with a click was reported positive and the next one, without
\* a click, negative
C9_Witness ==
    /\ ncalls = 4
    /\ last_call.op = "give_feedback"
    /\ ~last_call.positive
    /\ \E a \in ActionSet : positive_feedback[a] = 1

\* a left click while the widget is idle
IdleClick ==
    /\ current_action = "idle"
    /\ action_duration' = action_duration
    /\ drag_position' = "pos"

\* C10: a click while the widget is idle changes neither the brain, its
\* files nor the clicked flag, and the episode that follows is reported
\* positive only if it was itself clicked.
C10_IdleClickInert ==
    [][/\ IdleClick => UNCHANGED <<brain, brainVars, user_clicked_during_action>>
       /\ (FeedbackEmitted /\ idle_clicked /\ ~ep_clicked) =>
              ~last_call'.positive]_vars

\* an episode that followed a click in idle is about to end unclicked
C10_Witness ==
    /\ idle_clicked
    /\ current_action # "idle"
    /\ ~ep_clicked
    /\ ~user_clicked_during_action
    /\ action_duration = 1

\* ------------------------------------------------------------------------
\* properties of the persisted state
\* ------------------------------------------------------------------------
\* a step that ends the process and starts it again
RestartStep == ncalls' = ncalls + 1 /\ last_call'.op = "__init__"

\* C11: in the simple brain, whenever the process is restarted between two
\* operations (before the first feedback, with no file, included), the new
\* process holds exactly the weights, action_counts and positive_feedback
\* the previous process held in memory.
C11_RestartRestores ==
    [][RestartStep =>
          /\ weights' = weights
          /\ action_counts' = action_counts
          /\ positive_feedback' = positive_feedback]_vars

\* a restart over a file holding a weight lowered twice, which takes 16
\* digits to write
C11_Witness ==
    /\ last_call.op = "__init__"
    /\ disk.foxy_brain_json # Nil
    /\ \E b \in ActionSet :
           /\ weights[b] = NegativeUpdate(NegativeUpdate(F_1_0))
           /\ ParseFloat(float_repr_15(weights[b], "short")) # weights[b]

\* the file holds an object of the shape save_brain writes
Documented(doc) ==
    /\ doc # Nil
    /\ DOMAIN doc[1] = {"weights", "action_counts", "positive_feedback"}
    /\ \A k \in DOMAIN doc[1] : DOMAIN doc[1][k] = ActionSet

\* C12: in the simple brain, when the save file at startup is missing,
\* unparseable, or parseable but not of the documented shape, the brain
\* constructed holds the default uniform prior, and the give_feedback calls
\* that follow do not fail.
C12_MalformedFallsBack ==
    ~Documented(scenario) =>
        /\ ncalls = 0 =>
               BrainData(weights, action_counts, positive_feedback) = Defaults
        /\ last_call.branch # "KeyError"

\* a give_feedback call of the widget whose save_brain raised
FailedSave ==
    /\ ncalls' = ncalls + 1
    /\ last_call'.op = "give_feedback"
    /\ last_call'.branch = "OSError"

\* C13: when the write fails during a feedback update the loop goes on:
\* the process is not ended, the update is kept in memory, and the episode
\* completes its transition to idle, so that its feedback is not applied a
\* second time.
C13_WriteFailureTolerated ==
    [][FailedSave =>
          /\ Running'
          /\ action_counts' # action_counts
          /\ current_action' = "idle"
          /\ current_non_idle_action' = None]_vars

\* C19: in the simple brain no operation changes exploration_rate from
\* 0.5, and the save file does not hold it.
C19_ExplorationFixed ==
    brain = "FoxyBrain" =>
        /\ exploration_rate = F_0_5
        /\ disk.foxy_brain_json # Nil =>
               DOMAIN disk.foxy_brain_json[1] =
                   {"weights", "action_counts", "positive_feedback"}

\* a restart over a file that a feedback wrote
C19_Witness ==
    /\ brain = "FoxyBrain"
    /\ last_call.op = "__init__"
    /\ disk.foxy_brain_json # Nil
    /\ weights # Uniform(F_1_0)
    /\ exploration_rate = F_0_5


\* ------------------------------------------------------------------------
\* properties of FoxyBrainDQN
\* ------------------------------------------------------------------------
\* a give_feedback call on the learned brain for a learnable action
DQNFeedbackStep ==
    /\ brain = "FoxyBrainDQN"
    /\ ncalls' = ncalls + 1
    /\ last_call'.op = "give_feedback"
    /\ last_call'.branch = "updated"

\* C14: the replay memory never holds more than 2000 transitions; a push
\* on the full memory evicts exactly the oldest transition and keeps the
\* order of the others, and a push on a memory not yet full keeps all of
\* them; the transition pushed is stored last.
C14_ReplayFifo ==
    [][DQNFeedbackStep /\ current_state # Nil =>
          /\ Len(memory') <= memory_capacity
          /\ Len(memory') =
                 IF Len(memory) = memory_capacity THEN memory_capacity
                                                  ELSE Len(memory) + 1
          /\ memory'[Len(memory')][1] = current_state[1]
          /\ \A i \in 1..(Len(memory') - 1) :
                 memory'[i] = memory[i + Len(memory) + 1 - Len(memory')]]_vars

\* a push arrived at the full memory and evicted the first transition
\* stored, the others being all different
C14_Witness ==
    /\ brain = "FoxyBrainDQN"
    /\ last_call.op = "give_feedback"
    /\ Len(memory) = memory_capacity
    /\ total_actions = memory_capacity + 1
    /\ memory[1][1].time_normalized = <<2, 1000>>
    /\ memory[1] # memory[2]

\* a give_feedback call whose train() reaches the copy of the online
\* parameters into the target network: a synchronization event
SyncEvent ==
    /\ DQNFeedbackStep
    /\ Len(memory') >= batch_size
    /\ total_actions % target_sync_period = 0

\* C15: the target parameters equal the online parameters right after
\* every synchronization event, and no other step of a session changes
\* them, although the training steps change the online parameters.
C15_TargetFrozen ==
    [][brain = "FoxyBrainDQN" /\ ~RestartStep =>
          IF SyncEvent THEN target_net' = policy_net'
                       ELSE target_net' = target_net]_vars

\* after a synchronization the training went on: the online parameters
\* differ from the target parameters copied at the synchronization
C15_Witness ==
    /\ brain = "FoxyBrainDQN"
    /\ last_call.op = "give_feedback"
    /\ target_net > 0
    /\ policy_net > target_net

\* C16: for every k >= 1 the feedback processed while total_actions = 100*k
\* sets the target parameters equal to the online parameters, in runs with
\* restarts too.
C16_SyncEveryHundred ==
    [][/\ DQNFeedbackStep
       /\ total_actions > 0
       /\ total_actions % target_sync_period = 0
       => target_net' = policy_net']_vars

\* a give_feedback call on the learned brain for a learnable action,
\* whatever its outcome
DQNFeedbackCall ==
    /\ brain = "FoxyBrainDQN"
    /\ ncalls' = ncalls + 1
    /\ last_call'.op = "give_feedback"
    /\ last_call'.action \in ActionSet

\* C17: a feedback that leaves fewer than 32 transitions in the replay
\* memory raises no error and makes no gradient step: the online and the
\* target parameters are unchanged, while epsilon is decayed and the
\* checkpoint and the statistics written hold the new fields.
C17_NoStepBelowBatch ==
    [][DQNFeedbackCall /\ Len(memory') < batch_size =>
          /\ last_call'.branch = "updated"
          /\ policy_net' = policy_net
          /\ target_net' = target_net
          /\ epsilon' = FMax(epsilon_min, FMul(epsilon, epsilon_decay))
          /\ FLt(epsilon_min, epsilon) => FLt(epsilon', epsilon)
          /\ disk'.model_pth # Nil /\ disk'.stats_json # Nil
          /\ disk'.model_pth[1].epsilon = epsilon'
          /\ disk'.model_pth[1].policy_net = policy_net'
          /\ disk'.model_pth[1].target_net = target_net'
          /\ disk'.stats_json[1].positive_feedback = positive_feedback'
          /\ disk'.stats_json[1].total_actions = total_actions']_vars

\* a feedback of a restarted session: the online parameters trained before
\* the restart, the memory not yet holding a minibatch
C17_Witness ==
    /\ brain = "FoxyBrainDQN"
    /\ last_call.op = "give_feedback"
    /\ Len(memory) > 0
    /\ Len(memory) < batch_size
    /\ policy_net > 0
    /\ FLt(epsilon, F_1_0)

\* C18: every feedback on a learnable action sets epsilon to
\* max(0.1, epsilon * 0.995) and no other step, a restart included, changes
\* it; so epsilon never increases and stays between 0.1 and 1.0.
C18_EpsilonDecay ==
    [][brain = "FoxyBrainDQN" =>
          /\ IF DQNFeedbackCall
             THEN epsilon' = FMax(F_0_1, FMul(epsilon, F_0_995))
             ELSE epsilon' = epsilon
          /\ FLe(epsilon', epsilon)
          /\ FLe(F_0_1, epsilon')
          /\ FLe(epsilon', F_1_0)]_vars

\* a feedback given with epsilon at its floor
C18_Witness ==
    /\ brain = "FoxyBrainDQN"
    /\ last_call.op = "give_feedback"
    /\ epsilon = F_0_1
    /\ disk.model_pth # Nil
    /\ disk.model_pth[1].epsilon = F_0_1

\* C20: a choose_action call on the learned brain increments the
\* action_counts entry of the action it returns, total_actions and
\* current_time by one each, and changes no other action_counts entry, no
\* positive_feedback entry, and neither epsilon nor the replay memory.
C20_ChooseFrame ==
    [][/\ brain = "FoxyBrainDQN"
       /\ ncalls' = ncalls + 1
       /\ last_call'.op = "choose_action"
       => /\ last_call'.action \in ActionSet
          /\ action_counts' =
                 [action_counts EXCEPT ![last_call'.action] = @ + 1]
          /\ total_actions' = total_actions + 1
          /\ current_time' = current_time + 1
          /\ positive_feedback' = positive_feedback
          /\ epsilon' = epsilon
          /\ memory' = memory]_vars

\* a choice made after a feedback decayed epsilon
C20_Witness ==
    /\ brain = "FoxyBrainDQN"
    /\ last_call.op = "choose_action"
    /\ last_call.action \in ActionSet
    /\ action_counts[last_call.action] = 1
    /\ total_actions = 1
    /\ FLt(epsilon, F_1_0)

\* ------------------------------------------------------------------------
\* properties of the statistics
\* ------------------------------------------------------------------------
\* C21: in the simple brain each choose_action call increments the
\* action_counts entry of the action it returns by exactly one.
C21_ChooseCounts ==
    [][/\ brain = "FoxyBrain"
       /\ EpisodeStart
       /\ last_call'.action \in ActionSet
       => action_counts' = [action_counts EXCEPT ![last_call'.action] = @ + 1]]_vars

\* the transition stored last is <<state, action index, reward, next state,
\* terminal flag>>: its action is the one reported, its reward +1.0 or -0.1,
\* its terminal flag false
ReportedTransition(t) ==
    /\ Actions[t[2] + 1] = last_call'.action
    /\ t[3] = (IF last_call'.positive THEN F_1_0 ELSE FNeg(F_0_1))
    /\ t[5] = FALSE

\* C22 as stated: every give_feedback call on a learnable action, one made
\* before any choose_action included, appends exactly one transition with
\* the reported action, the reward +1.0 or -0.1, the state of the last
\* choose_action and the terminal flag false.
C22_Original ==
    [][DQNFeedbackStep =>
          /\ Len(memory') = Len(memory) + 1
          /\ ReportedTransition(memory'[Len(memory')])
          /\ current_state # Nil =>
                 memory'[Len(memory')][1] = current_state[1]]_vars

\* C22: a give_feedback call on a learnable action made after a
\* choose_action of the session appends exactly one transition with the
\* reported action, the reward +1.0 or -0.1, the state taken by the last
\* choose_action and the terminal flag false, and keeps the transitions
\* stored before; a call made before any choose_action of the session
\* leaves the replay memory as it is.
C22_StoredAfterChoice ==
    [][DQNFeedbackStep /\ Len(memory) < memory_capacity =>
          IF current_state = Nil
          THEN memory' = memory
          ELSE /\ Len(memory') = Len(memory) + 1
               /\ SubSeq(memory', 1, Len(memory)) = memory
               /\ ReportedTransition(memory'[Len(memory')])
               /\ memory'[Len(memory')][1] = current_state[1]]_vars

\* a negative feedback reported for another action than the one chosen was
\* stored under the reported action
C22_Witness ==
    /\ brain = "FoxyBrainDQN"
    /\ last_call.op = "give_feedback"
    /\ ~last_call.positive
    /\ Len(memory) = 1
    /\ current_action_idx # Nil
    /\ memory[1][2] # current_action_idx[1]
    /\ memory[1][3] = FNeg(F_0_1)

C24_IdleDwell ==
    /\ [](current_action = "idle" => scenario[1] < 240)
    /\ [][EpisodeStart => (48 <= scenario[1] + 1 /\ scenario[1] + 1 <= 240)]_vars

\* the idle dwell that followed an episode is on the last tick before its
\* 240th
C24_Witness ==
    /\ current_action = "idle"
    /\ last_call.op = "give_feedback"
    /\ scenario[1] = 239
    /\ action_duration = 1

\* a timer tick: a step that changes the count of the ticks
TimerTick == scenario' # scenario

\* C26 as stated: the animation frame and the countdown are advanced by
\* independent ticks, so a step that advances the animation frame does not
\* decrement the countdown.
C26_Original ==
    [][(ncalls' = ncalls /\ current_frame' # current_frame) =>
          action_duration' = action_duration]_vars

\* C26: one periodic tick drives both: every tick that does not end the
\* dwell or the episode advances the animation frame by one modulo 24 and
\* decrements the countdown by one, the tick that ends it resets the frame
\* to 0 and sets the next countdown, and no other step changes the frame or
\* the countdown.
C26_SingleTick ==
    [][IF TimerTick
       THEN IF ncalls' = ncalls
            THEN /\ current_frame' = (current_frame + 1) % 24
                 /\ action_duration' = action_duration - 1
            ELSE /\ current_frame' = 0
                 /\ action_duration = 1
                 /\ action_duration' >= 48
       ELSE /\ current_frame' = current_frame
            /\ action_duration' = action_duration]_vars

\* thirty ticks into an episode the frame has wrapped around once
C26_Witness ==
    /\ current_action # "idle"
    /\ scenario[1] = 30
    /\ current_frame = 6
    /\ action_duration = 42
    /\ drag_position # None

SimpleFeedbackCall ==
    /\ brain = "FoxyBrain"
    /\ ncalls' = ncalls + 1
    /\ last_call'.op = "give_feedback"

\* C29: in the simple brain give_feedback(a, ...) changes only a's entries:
\* weight, action count and positive count of every other learnable action
\* are unchanged; and negative feedback on an action standing at the floor
\* leaves its weight unchanged while its action count still grows by one.
C29_FeedbackFrame ==
    [][SimpleFeedbackCall =>
          /\ \A b \in ActionSet \ {last_call'.action} :
                 /\ weights'[b] = weights[b]
                 /\ action_counts'[b] = action_counts[b]
                 /\ positive_feedback'[b] = positive_feedback[b]
          /\ (/\ FeedbackStep(FALSE)
              /\ FLe(weights[last_call'.action], weight_floor)) =>
                 /\ weights'[last_call'.action] = weights[last_call'.action]
                 /\ action_counts'[last_call'.action] =
                        action_counts[last_call'.action] + 1
                 /\ positive_feedback'[last_call'.action] =
                        positive_feedback[last_call'.action]]_vars

\* an action that stood at the floor has received one more negative
\* feedback, the other actions having received none in this session
C29_Witness ==
    /\ brain = "FoxyBrain"
    /\ last_call.op = "give_feedback"
    /\ last_call.branch = "updated"
    /\ ~last_call.positive
    /\ action_counts[last_call.action] = PriorNeg + 2
    /\ weights[last_call.action] = weight_floor
    /\ \A b \in ActionSet \ {last_call.action} :
           action_counts[b] = 0 /\ weights[b] = F_1_0


StatsConsistent(ac, pf, tc, ta, lct, ct) ==
    /\ ta = CountSum(ac)
    /\ tc = CountSum(pf)
    /\ \A a \in ActionSet : pf[a] <= ac[a]
    /\ lct <= ct

\* C30: in the learned brain driven episode by episode from a fresh start,
\* total_actions is the sum of action_counts, total_clicks the sum of
\* positive_feedback, positive_feedback[a] <= action_counts[a] for every
\* action and last_click_time <= current_time, in every state; the same
\* holds of the statistics stored in stats.json, and after any restart.
C30_StatsConsistent ==
    brain = "FoxyBrainDQN" =>
        /\ StatsConsistent(action_counts, positive_feedback, total_clicks,
                           total_actions, last_click_time, current_time)
        /\ disk.stats_json # Nil =>
               /\ DOMAIN disk.stats_json[1] =
                      {"action_counts", "positive_feedback", "total_clicks",
                       "total_actions", "last_click_time", "current_time"}
               /\ StatsConsistent(StatsGetMap(disk.stats_json, "action_counts"),
                                  StatsGetMap(disk.stats_json, "positive_feedback"),
                                  StatsGet(disk.stats_json, "total_clicks", 0),
                                  StatsGet(disk.stats_json, "total_actions", 0),
                                  StatsGet(disk.stats_json, "last_click_time", 0),
                                  StatsGet(disk.stats_json, "current_time", 0))

\* the brain has just been restarted a second time, during an episode, over
\* statistics that hold clicks and unrewarded actions
C30_Witness ==
    /\ brain = "FoxyBrainDQN"
    /\ last_call.op = "__init__"
    /\ scenario = <<"restarted", MaxRestarts>>
    /\ disk.stats_json # Nil
    /\ total_actions + 1 \in RestartPoints
    /\ total_clicks > 0
    /\ \A a \in ActionSet : 0 < positive_feedback[a] /\ positive_feedback[a] < action_counts[a]
    /\ last_click_time < current_time


\* ------------------------------------------------------------------------
\* properties of the selection loop under heavy weights
\* ------------------------------------------------------------------------
\* the largest value random.random() can return that is <= c: the values
\* it returns are the multiples of 2^-53 in [0, 1)
DrawFloor(c) ==
    IF c[1] = 0 THEN FZero
    ELSE IF c[4] > -53 THEN F_MaxDraw
    ELSE IF c[4] = -53 THEN c
    ELSE LET s == WShr(FMant(c), (0 - 53) - c[4])
         IN  IF s = <<0, 0>> THEN FZero ELSE RoundNorm(1, s, -53)

\* some draw makes the selection loop return Actions[i]: if any draw does,
\* the largest draw that is <= cum[i] does
LoopSelects(cum, i) == ExploitScan(cum, DrawFloor(cum[i])) = Actions[i]

\* some draw makes the loop end without returning, random.choice then
\* returning any action
FallsThrough(cum) == ExploitScan(cum, F_MaxDraw) = None

AllSelectable(w) ==
    \A compensated \in BOOLEAN, i \in 1..action_size :
        \/ LoopSelects(Thresholds(w, compensated), i)
        \/ FallsThrough(Thresholds(w, compensated))

\* C27 as stated: in the simple brain, in every state reachable from the
\* uniform prior, for each learnable action there is a draw r in [0,1) for
\* which exploitation returns that action.
C27_Original == brain = "FoxyBrain" => AllSelectable(weights)

\* C27: in the simple brain, in every state in which no weight exceeds
\* 2^40, for each learnable action there is a draw r in [0,1) for which the
\* selection loop returns that action.
C27_SelectableBelowHeavy ==
    (brain = "FoxyBrain" /\ \A a \in ActionSet : FLe(weights[a], F_Heavy)) =>
        \A compensated \in BOOLEAN, i \in 1..action_size :
            LoopSelects(Thresholds(weights, compensated), i)

\* exploitation has returned an action standing at the floor beside an
\* action of weight 2^40
C27_Witness ==
    /\ Exploited
    /\ last_call.branch = "exploit"
    /\ \E a \in ActionSet : weights[a] = F_Heavy
    /\ weights[last_call.action] = weight_floor
    /\ FLt(FZero, last_call.rand_val)


\* ------------------------------------------------------------------------
\* properties of the learned brain's restart
\* ------------------------------------------------------------------------
\* the save directory holds the fields as they are
Persisted(s) ==
    /\ s.disk.model_pth = Some([policy_net |-> s.policy_net,
                                target_net |-> s.target_net,
                                optimizer |-> s.policy_net,
                                epsilon |-> s.epsilon])
    /\ s.disk.stats_json = Some([action_counts |-> s.action_counts,
                                 positive_feedback |-> s.positive_feedback,
                                 total_clicks |-> s.total_clicks,
                                 total_actions |-> s.total_actions,
                                 last_click_time |-> s.last_click_time,
                                 current_time |-> s.current_time])

\* the networks, epsilon and the statistics
Learned(s) ==
    <<s.epsilon, s.policy_net, s.target_net, s.action_counts,
      s.positive_feedback, s.total_clicks, s.total_actions, s.last_click_time,
      s.current_time>>

\* the fields after the step
DQNStateNext ==
    [epsilon |-> epsilon', policy_net |-> policy_net', target_net |-> target_net',
     memory |-> memory', action_counts |-> action_counts',
     positive_feedback |-> positive_feedback', total_clicks |-> total_clicks',
     total_actions |-> total_actions', last_click_time |-> last_click_time',
     current_time |-> current_time', current_state |-> current_state',
     current_action_idx |-> current_action_idx', disk |-> disk']

BehaviorStep == scenario'.event = "update_behavior"

\* C32: when the periodic behaviour update fires in eat, excited or drag,
\* state and current_frame are as before; fired in any other state it does
\* not move the pet into excited, drag or run.
C32_BehaviorKeepsStates ==
    [][BehaviorStep =>
          /\ scenario.state \in {"eat", "excited", "drag"} =>
                 /\ scenario'.state = scenario.state
                 /\ scenario'.current_frame = scenario.current_frame
          /\ scenario.state \notin {"eat", "excited", "drag"} =>
                 \/ scenario'.state = scenario.state
                 \/ scenario'.state \notin {"excited", "drag", "run"}]_vars

\* the behaviour update has fired, and the pet is in the first frame of eat,
\* a state only that update enters
C32_Witness ==
    /\ scenario.event = "update_behavior"
    /\ scenario.state = "eat"
    /\ scenario.current_frame = 0
    /\ scenario.drag_start_pos # None
    /\ scenario.pending > 0


\* the left button is held and the pet is being dragged
DragInProgress ==
    /\ scenario.state = "drag"
    /\ scenario.drag_start_pos # None

TimerStep ==
    scenario'.event \in {"update_animation", "update_behavior",
                         "jump_to_cursor"}

\* C33: while a drag is in progress no timer callback (the animation timer,
\* the behaviour timer, a pending jump_to_cursor single shot) takes the pet
\* out of the state drag.
C33_DragUninterrupted ==
    [][DragInProgress /\ TimerStep => scenario'.state = "drag"]_vars

====
